---- MODULE Spec2Model ----
(***************************************************************************)
(* hypr-conf: the include/source resolution engine.                        *)
(*                                                                         *)
(*   src/src/source.rs        collect_source_graph (flat mode)             *)
(*   src/src/toml_include.rs  load_toml_with_includes (merge mode) and     *)
(*                            merge_toml_values (Structural Merger)        *)
(*                                                                         *)
(* The filesystem is read-only during a call.  A path is one of the        *)
(* strings of PathOrder.  A source/include expression is already expanded  *)
(* against its base directory: it is either the path it names or the glob  *)
(* pattern GlobExpr.  An alias is a second spelling of a file (a sibling   *)
(* symlink, "./x", "sub/../x"): it canonicalizes to the file it names and  *)
(* resolves the file's expressions to the same targets.                    *)
(***************************************************************************)
EXTENDS Integers, Sequences, FiniteSets, TLC

VARIABLES
    fs,         \* the filesystem: kind, canon and exprs of every path
    root,       \* the path the call was given
    pc,         \* "walk" | "load" | "merge" | "done": position of the call
    out,        \* collect_source_graph: out
    stack,      \* collect_source_graph: stack (last element is the top)
    seen,       \* collect_source_graph: seen
    skips,      \* popped paths that were skipped as already seen, in order
    reads,      \* paths handed to fs::read_to_string, in order
    frames,     \* load_toml_with_includes_inner: the active calls, innermost last
    rec_stack,  \* load_toml_with_includes: stack (the Recursion Stack)
    err,        \* the Err(..) being returned through the callers, or NoErr
    result,     \* what load_toml_with_includes returned
    loads,      \* paths whose load was entered (cycle check passed), in order
    cyc,        \* where CyclicInclude was raised: target and the chain then
    last_exit,  \* the inner call that last returned: its path, the Recursion
                \* Stack on entry and on exit, and the document if it returned Ok
    first,      \* what the load returned before the filesystem was stripped of
                \* its dangling include expressions, or NoResult
    base,       \* merge_toml_values: base
    other,      \* merge_toml_values: other
    merged,     \* merge_toml_values: base afterwards
    src_value,  \* expand_source_expression_to_path / resolve_source_targets: value
    base_dir,   \* ... base_dir
    home_dir,   \* ... home_dir
    globbed,    \* what glob::glob yields for the pattern on this filesystem:
                \* "err" or the matching paths with what each path is
    expanded,   \* what expand_source_expression_to_path returned
    targets,    \* what resolve_source_targets returned
    content,    \* extract_sources: content
    sources,    \* extract_sources: sources
    remaining,  \* extract_sources: remaining
    line,       \* parse_source_value: line
    parsed,     \* what parse_source_value returned: <<>> for None, <<value>>
    tree,       \* the files and directories that resolve_config_path meets
    fallback,   \* resolve_config_path: fallback
    dstack,     \* discover_config_files: stack
    matches,    \* discover_config_files: matches
    resolved,   \* what resolve_config_path_strict and resolve_config_path returned
    calls       \* the calls that run at the same time, each with its own locals

flatVars == <<out, stack, seen, skips>>
loadVars == <<frames, rec_stack, err, result, loads, cyc, last_exit, first>>
mergeVars == <<base, other, merged>>
pathVars == <<src_value, base_dir, home_dir, globbed, expanded, targets>>
textVars == <<content, sources, remaining, line, parsed>>
confVars == <<tree, fallback, dstack, matches, resolved>>
otherVars == <<pathVars, textVars, confVars, calls>>
vars == <<fs, root, pc, reads, flatVars, loadVars, mergeVars, otherVars>>

----------------------------------------------------------------------------
(* Bounds *)

\* longest list of source directives / include expressions in one file
MaxExprs == 2

\* most source directives / include expressions in the whole filesystem
MaxTotalExprs == 4

\* the integers 1..MaxInt are the scalars of the documents that are merged
MaxInt == 2

----------------------------------------------------------------------------
(* Sequences *)

RECURSIVE Concat(_)
\* the concatenation of a sequence of sequences
Concat(ss) == IF ss = <<>> THEN <<>> ELSE Head(ss) \o Concat(Tail(ss))

Range(s) == {s[i] : i \in 1..Len(s)}

SeqsUpTo(S, n) == UNION {[1..k -> S] : k \in 0..n}

NoDup(s) == \A i, j \in 1..Len(s) : i # j => s[i] # s[j]

----------------------------------------------------------------------------
(* Structured documents: toml::Value *)

\* Value::Integer, Value::Array, Value::Table.  An array element is a string
\* (is_str) or some other value, named by its text.
IntV(n) == [tag |-> "int", s |-> n, a |-> <<>>, t |-> <<>>]

ArrV(es) == [tag |-> "arr", s |-> 0, a |-> es, t |-> <<>>]

TblV(m) == [tag |-> "tbl", s |-> 0, a |-> <<>>, t |-> m]

StrEl(v) == [is_str |-> TRUE, v |-> v]

IsTable(v) == v.tag = "tbl"

\* Map::insert of a key the map does not hold
Insert(m, k, v) == [x \in DOMAIN m \cup {k} |-> IF x = k THEN v ELSE m[x]]

RECURSIVE merge_toml_values(_, _), MergeEntries(_, _, _), MergeEntriesShallow(_, _, _)

\* a merger whose loop overwrites a key base_map holds instead of merging
MergeEntriesShallow(base_map, other_map, todo) ==
    IF todo = {} THEN base_map
    ELSE LET key == CHOOSE k \in todo : TRUE
             value == other_map[key]
             next == IF key \in DOMAIN base_map
                     THEN [base_map EXCEPT ![key] = value]
                     ELSE Insert(base_map, key, value)
         IN MergeEntriesShallow(next, other_map, todo \ {key})

\* a merger that appends an incoming array to the array it meets
merge_concat_arrays(b, o) ==
    IF IsTable(b) /\ IsTable(o)
    THEN TblV(MergeEntries(b.t, o.t, DOMAIN o.t))
    ELSE IF b.tag = "arr" /\ o.tag = "arr" THEN ArrV(b.a \o o.a) ELSE o

\* the loop over other_map: a key base_map holds is merged into its value,
\* any other key is inserted
MergeEntries(base_map, other_map, todo) ==
    IF todo = {} THEN base_map
    ELSE LET key == CHOOSE k \in todo : TRUE
             value == other_map[key]
             next == IF key \in DOMAIN base_map
                     THEN [base_map EXCEPT ![key] = merge_toml_values(@, value)]
                     ELSE Insert(base_map, key, value)
         IN MergeEntries(next, other_map, todo \ {key})

\* merge_toml_values(&mut base, other): the value of base afterwards
merge_toml_values(b, o) ==
    IF IsTable(b) /\ IsTable(o)
    THEN TblV(MergeEntries(b.t, o.t, DOMAIN o.t))
    ELSE o

NoErr == [kind |-> "none", path |-> ""]

NoResult == [tag |-> "none", doc |-> IntV(0), err |-> NoErr]

NoCyc == [target |-> "", chain |-> {}]

NoExit == [entry |-> {}, exit |-> {}, path |-> "", ok |-> FALSE, doc |-> IntV(0)]

----------------------------------------------------------------------------
(* The filesystem *)

\* paths in the order a sorted directory listing (glob) yields them
PathOrder == <<"a", "b", "c", "d">>

Paths == Range(PathOrder)

\* the files that may hold directives of their own
Configs == {"a", "b", "c"}

\* the glob expression ("includes/*.conf") and the paths its pattern matches
GlobExpr == "*"

GlobMatches == {"b", "c", "d"}

Exprs == Paths \cup {GlobExpr}

\* "file": readable regular file, "noread": regular file whose read fails,
\* "badtoml": readable regular file that is not a TOML document,
\* "dir": a directory, "missing": no such entry
Kinds == {"file", "noread", "badtoml", "dir", "missing"}

\* Path::exists
Exists(f, p) == f.kind[f.canon[p]] # "missing"

\* Path::is_file
IsFile(f, p) == f.kind[f.canon[p]] \in {"file", "noread", "badtoml"}

\* fs::read_to_string(..).is_ok()
Readable(f, p) == f.kind[f.canon[p]] \in {"file", "badtoml"}

\* path.canonicalize().unwrap_or(path): a path that does not exist has no
\* canonical form and stands for itself
Canonicalize(f, p) == IF Exists(f, p) THEN f.canon[p] ELSE p

\* the expressions read from p, in file order
ExprsOf(f, p) == f.exprs[f.canon[p]]

RECURSIVE SortedMatches(_, _)
\* glob::glob(pattern).flatten().filter(exists && is_file): the matching
\* regular files of the rest r of the directory listing
SortedMatches(f, r) ==
    IF r = <<>> THEN <<>>
    ELSE (IF Head(r) \in GlobMatches /\ Exists(f, Head(r)) /\ IsFile(f, Head(r))
          THEN <<Head(r)>> ELSE <<>>) \o SortedMatches(f, Tail(r))

\* has_glob_chars
has_glob_chars(e) == e = GlobExpr

\* resolve_source_targets: a glob yields its existing regular files, any
\* other expression exactly the path it names
resolve_source_targets(f, e) ==
    IF has_glob_chars(e) THEN SortedMatches(f, PathOrder) ELSE <<e>>

\* the filesystems considered: a, b, c are regular files with any list of
\* at most MaxExprs expressions; d has no expressions and is a regular file,
\* unreadable, a directory, missing, or an alias of a, b or c
ExprLists == SeqsUpTo(Paths, MaxExprs) \cup {<<GlobExpr>>}

\* what d may be: <<kind, canonical path>>; as an alias it is the file it names
DOptions(dkinds) ==
    {<<k, "d">> : k \in dkinds} \cup {<<"file", c>> : c \in Configs}

RECURSIVE SumLen(_, _)
SumLen(ex, S) ==
    IF S = {} THEN 0
    ELSE LET p == CHOOSE x \in S : TRUE IN Len(ex[p]) + SumLen(ex, S \ {p})

ExprChoices == {ex \in [Configs -> ExprLists] : SumLen(ex, Configs) <= MaxTotalExprs}

MkFs(dopt, ex) ==
    [kind  |-> [p \in Paths |-> IF p = "d" THEN dopt[1] ELSE "file"],
     canon |-> [p \in Paths |-> IF p = "d" THEN dopt[2] ELSE p],
     exprs |-> [p \in Paths |-> IF p = "d" THEN <<>> ELSE ex[p]]]

----------------------------------------------------------------------------
(* Flat mode: collect_source_graph *)

\* a walk that pushes every resolved target without the exists/is_file test
PushedUnfiltered(f, file) ==
    LET es == ExprsOf(f, file)
    IN Concat([i \in 1..Len(es) |-> resolve_source_targets(f, es[i])])

\* the variables of the other operations while one operation runs
LoadIdle ==
    /\ frames = <<>> /\ rec_stack = {} /\ err = NoErr /\ result = NoResult
    /\ loads = <<>> /\ cyc = NoCyc /\ last_exit = NoExit /\ first = NoResult

MergeIdle == base = IntV(0) /\ other = IntV(0) /\ merged = IntV(0)

FlatIdle == out = <<>> /\ stack = <<>> /\ seen = {} /\ skips = <<>>

PathIdle ==
    /\ src_value = <<>> /\ base_dir = <<>> /\ home_dir = <<>>
    /\ globbed = <<>> /\ expanded = <<>> /\ targets = <<>>

TextIdle ==
    /\ content = <<>> /\ sources = <<>> /\ remaining = <<>>
    /\ line = <<>> /\ parsed = <<>>

ConfIdle ==
    /\ tree = <<>> /\ fallback = <<>> /\ dstack = <<>> /\ matches = <<>>
    /\ resolved = <<>>

CallIdle == calls = <<>>

OtherIdle == PathIdle /\ TextIdle /\ ConfIdle /\ CallIdle

\* the targets pushed while reading file: every directive's resolved targets
\* that exist and are regular files, in file order
PushedTargets(f, file) ==
    LET one(e) == SelectSeq(resolve_source_targets(f, e),
                            LAMBDA t : Exists(f, t) /\ IsFile(f, t))
        es == ExprsOf(f, file)
    IN Concat([i \in 1..Len(es) |-> one(es[i])])

Top == stack[Len(stack)]

Pop == SubSeq(stack, 1, Len(stack) - 1)

InitFlat ==
    /\ \E dopt \in DOptions({"file", "noread", "dir", "missing"}),
          ex \in ExprChoices : fs = MkFs(dopt, ex)
    /\ root \in Paths
    /\ pc = "walk"
    /\ out = <<>>
    /\ stack = <<root>>
    /\ seen = {}
    /\ skips = <<>>
    /\ reads = <<>>
    /\ LoadIdle
    /\ MergeIdle
    /\ OtherIdle

\* a walk that keys the visitation set by the path as given
canonical_raw(file) == file

\* file.canonicalize().unwrap_or(file.clone()) of the popped file
canonical_of(file) == Canonicalize(fs, file)

\* the popped file's canonical path is already in seen: continue
FlatSkip ==
    /\ pc = "walk" /\ stack # <<>>
    /\ canonical_of(Top) \in seen
    /\ stack' = Pop
    /\ skips' = Append(skips, Top)
    /\ UNCHANGED <<fs, root, pc, out, seen, reads, loadVars, mergeVars>>
    /\ UNCHANGED otherVars

\* a walk that gives up at the first file it cannot read
FlatUnreadableAborts ==
    /\ pc = "walk" /\ stack # <<>>
    /\ canonical_of(Top) \notin seen
    /\ ~Readable(fs, Top)
    /\ seen' = seen \cup {canonical_of(Top)}
    /\ out' = Append(out, Top)
    /\ reads' = Append(reads, Top)
    /\ stack' = <<>>
    /\ UNCHANGED <<fs, root, pc, skips, loadVars, mergeVars>>
    /\ UNCHANGED otherVars

\* a new file whose read fails: it is listed, nothing is pushed
FlatUnreadable ==
    /\ pc = "walk" /\ stack # <<>>
    /\ canonical_of(Top) \notin seen
    /\ ~Readable(fs, Top)
    /\ seen' = seen \cup {canonical_of(Top)}
    /\ out' = Append(out, Top)
    /\ reads' = Append(reads, Top)
    /\ stack' = Pop
    /\ UNCHANGED <<fs, root, pc, skips, loadVars, mergeVars>>
    /\ UNCHANGED otherVars

\* a walk whose work list is a queue: the targets go under the entries
\* that are waiting
FlatDescendQueue ==
    /\ pc = "walk" /\ stack # <<>>
    /\ canonical_of(Top) \notin seen
    /\ Readable(fs, Top)
    /\ seen' = seen \cup {canonical_of(Top)}
    /\ out' = Append(out, Top)
    /\ reads' = Append(reads, Top)
    /\ stack' = PushedTargets(fs, Top) \o Pop
    /\ UNCHANGED <<fs, root, pc, skips, loadVars, mergeVars>>
    /\ UNCHANGED otherVars

\* a new file that is read: it is listed and its targets are pushed
FlatDescend ==
    /\ pc = "walk" /\ stack # <<>>
    /\ canonical_of(Top) \notin seen
    /\ Readable(fs, Top)
    /\ seen' = seen \cup {canonical_of(Top)}
    /\ out' = Append(out, Top)
    /\ reads' = Append(reads, Top)
    /\ stack' = Pop \o PushedTargets(fs, Top)
    /\ UNCHANGED <<fs, root, pc, skips, loadVars, mergeVars>>
    /\ UNCHANGED otherVars

\* the stack is empty: return out
FlatReturn ==
    /\ pc = "walk" /\ stack = <<>>
    /\ pc' = "done"
    /\ UNCHANGED <<fs, root, out, stack, seen, skips, reads, loadVars, mergeVars>>
    /\ UNCHANGED otherVars

NextFlat == FlatSkip \/ FlatUnreadable \/ FlatDescend \/ FlatReturn

SpecFlat == InitFlat /\ [][NextFlat]_vars

----------------------------------------------------------------------------
(* Flat mode: properties *)

CanonSeq(f, s) == [i \in 1..Len(s) |-> Canonicalize(f, s[i])]

\* C1: in flat mode no canonical path is processed twice within one walk:
\* the visitation set only grows and is the set of canonical paths of the
\* output, a popped file whose canonical path is already in the set is
\* skipped without being appended or read, every listed file is read once,
\* and the output never holds two entries with the same canonical path.
C1_NoCanonicalPathTwice ==
    /\ [](/\ NoDup(CanonSeq(fs, out))
          /\ seen = Range(CanonSeq(fs, out))
          /\ reads = out)
    /\ [][/\ seen \subseteq seen'
          /\ (stack # <<>> /\ Canonicalize(fs, Top) \in seen)
                => (out' = out /\ reads' = reads /\ seen' = seen)]_vars

\* a walk that skipped an alias of a file it had listed under another name
C1_Witness ==
    /\ pc = "done"
    /\ \E i \in 1..Len(skips) :
          /\ skips[i] \notin Range(out)
          /\ Canonicalize(fs, skips[i]) \in Range(CanonSeq(fs, out))

\* the regular files the source directives of p name, when p can be read
SourceEdges(f, p) ==
    IF ~Readable(f, p) THEN {}
    ELSE {t \in UNION {Range(resolve_source_targets(f, ExprsOf(f, p)[i])) :
                          i \in 1..Len(ExprsOf(f, p))} :
            Exists(f, t) /\ IsFile(f, t)}

RECURSIVE ReachFrom(_, _)
\* the paths reachable from the set S through source directives
ReachFrom(f, S) ==
    LET next == S \cup UNION {SourceEdges(f, p) : p \in S}
    IN IF next = S THEN S ELSE ReachFrom(f, next)

\* p lies on a cycle of source directives
OnCycle(f, p) ==
    \E t \in SourceEdges(f, p) :
        Canonicalize(f, p) \in {Canonicalize(f, q) : q \in ReachFrom(f, {t})}

CanonSet(f, S) == {Canonicalize(f, p) : p \in S}

\* C2: in flat mode a walk started from a file on a cycle of source
\* directives returns exactly the files reachable from the start through
\* directives whose targets exist as regular files, each exactly once.
C2_CycleVisitsReachableOnce ==
    (pc = "done" /\ OnCycle(fs, root)) =>
        /\ NoDup(CanonSeq(fs, out))
        /\ Range(out) \subseteq ReachFrom(fs, {root})
        /\ Range(CanonSeq(fs, out)) = CanonSet(fs, ReachFrom(fs, {root}))
        /\ Len(out) = Cardinality(CanonSet(fs, ReachFrom(fs, {root})))

\* the chain a -> b -> c -> a walked from b lists three files
C2_Witness ==
    /\ pc = "done" /\ root = "b"
    /\ fs.exprs["a"] = <<"b">> /\ fs.exprs["b"] = <<"c">> /\ fs.exprs["c"] = <<"a">>
    /\ OnCycle(fs, root)
    /\ Len(out) = 3 /\ Range(out) = {"a", "b", "c"}

\* what is left of a walk: the canonical paths not yet seen, each worth more
\* than the targets one file can push, the entries on the work stack, and
\* the return
FlatMeasure ==
    LET pushMax == MaxExprs * Cardinality(Paths)
        unseen == Cardinality(CanonSet(fs, Paths) \ seen)
    IN (pushMax + 1) * unseen + Len(stack) + (IF pc = "walk" THEN 1 ELSE 0)

\* C3: in flat mode the walk terminates on every file graph, when its work
\* stack empties, and has no failure to report: every step strictly lowers
\* FlatMeasure, a walk that is not done can take a step, it is done only
\* with an empty stack, and a file that cannot be read is listed, pushes
\* nothing and leaves the remaining entries of the work stack to be walked.
C3_FlatTerminates ==
    /\ [](FlatMeasure >= 0)
    /\ [](pc = "done" => stack = <<>>)
    /\ [](pc = "walk" => ENABLED NextFlat)
    /\ [][/\ FlatMeasure' < FlatMeasure
          /\ (stack # <<>> /\ Canonicalize(fs, Top) \notin seen /\ ~Readable(fs, Top))
                => (stack' = Pop /\ out' = Append(out, Top) /\ pc' = "walk")]_vars

\* a finished walk that listed an unreadable or missing file and went on to
\* list another file after it
C3_Witness ==
    /\ pc = "done"
    /\ \E i \in 1..Len(out) : ~Readable(fs, out[i]) /\ i < Len(out)

\* the indices of the targets pushed while reading out[i] whose canonical
\* path was not visited when out[i] had been listed
FreshPushed(i) ==
    LET pt == PushedTargets(fs, out[i])
        before == Range(CanonSeq(fs, SubSeq(out, 1, i)))
    IN {k \in 1..Len(pt) : Canonicalize(fs, pt[k]) \notin before}

\* the greatest member of a non-empty set of numbers
Greatest(S) == CHOOSE k \in S : \A m \in S : m <= k

\* C18: in flat mode the output order is the pop order of a LIFO work
\* stack.  The root is the first element of the output, and a finished walk
\* lists it also when it does not exist or cannot be read.  Every step of
\* the walk takes the top of the stack; a file that is listed is that top,
\* and its targets go on top of what was left.  Among the targets pushed
\* while reading a listed file, the last-pushed one not yet visited is the
\* file listed next, before any earlier-pushed target that names another
\* file.
C18_LifoOrder ==
    /\ [](out # <<>> => out[1] = root)
    /\ [](pc = "done" => out # <<>>)
    /\ [](\A i \in 1..Len(out) :
            (Readable(fs, out[i]) /\ FreshPushed(i) # {}) =>
                /\ pc = "done" => i < Len(out)
                /\ i < Len(out) =>
                      LET pt == PushedTargets(fs, out[i])
                          last == Greatest(FreshPushed(i))
                      IN /\ out[i + 1] = pt[last]
                         /\ \A k \in FreshPushed(i) :
                               Canonicalize(fs, pt[k]) # Canonicalize(fs, pt[last]) =>
                                  \A j \in 1..Len(out) :
                                     Canonicalize(fs, out[j]) = Canonicalize(fs, pt[k])
                                        => j > i + 1)
    /\ [][stack # <<>> =>
            /\ \E pushed \in {<<>>, PushedTargets(fs, Top)} : stack' = Pop \o pushed
            /\ out' \in {out, Append(out, Top)}]_vars

\* a finished walk of a file that pushed two new targets: the one pushed
\* last is listed right after it, the other one later
C18_Witness ==
    /\ pc = "done"
    /\ \E i \in 1..Len(out) :
          /\ Readable(fs, out[i])
          /\ Cardinality(FreshPushed(i)) = 2
          /\ LET pt == PushedTargets(fs, out[i])
             IN /\ Canonicalize(fs, pt[1]) # Canonicalize(fs, pt[2])
                /\ out[i + 1] = pt[2]
                /\ \E j \in (i + 2)..Len(out) : out[j] = pt[1]

----------------------------------------------------------------------------
(* Merge mode: load_toml_with_includes *)

\* the include_key argument
IncludeKey == "include"

\* the number a file's own settings carry, so that a value names its file
FileId(c) == CHOOSE i \in 1..Len(PathOrder) : PathOrder[i] = c

\* toml::from_str of the content read through p: a scalar key "k" every file
\* sets, a table "t" with one key per file, and the include array when the
\* file declares expressions
ParsedDoc(f, p) ==
    LET c == f.canon[p]
        own == [x \in {"k", "t"} |->
                   IF x = "k" THEN IntV(FileId(c))
                   ELSE TblV([y \in {c} |-> IntV(FileId(c))])]
    IN IF f.exprs[c] = <<>> THEN TblV(own)
       ELSE TblV(Insert(own, IncludeKey,
                        ArrV([i \in 1..Len(f.exprs[c]) |-> StrEl(f.exprs[c][i])])))

\* extract_include_patterns: the string elements of the array under include_key
extract_include_patterns(doc, include_key) ==
    IF IsTable(doc) /\ include_key \in DOMAIN doc.t /\ doc.t[include_key].tag = "arr"
    THEN LET strs == SelectSeq(doc.t[include_key].a, LAMBDA e : e.is_str)
         IN [i \in 1..Len(strs) |-> strs[i].v]
    ELSE <<>>

\* a call of load_toml_with_includes_inner: st is "entered" after the insert
\* into the Recursion Stack and "loop" once the file is read and parsed;
\* patterns and targets are what the two loops have still to visit; entry is
\* the Recursion Stack as the call found it
Frame(path, canonical, entry) ==
    [path |-> path, canonical |-> canonical, st |-> "entered",
     root_value |-> TblV(<<>>), patterns |-> <<>>, targets |-> <<>>,
     entry |-> entry]

Cur == frames[Len(frames)]

Callers == SubSeq(frames, 1, Len(frames) - 1)

SetCur(fr) == [frames EXCEPT ![Len(frames)] = fr]

\* an exit that leaves the path on the Recursion Stack
ExitStackKeeps(s, canonical) == s

\* stack.remove(&canonical) after the closure
ExitStack(s, canonical) == s \ {canonical}

\* a loader that keys the Recursion Stack by the path as given
load_canonical_raw(path) == path

\* path.canonicalize().unwrap_or_else(|_| path.to_path_buf())
load_canonical(path) == Canonicalize(fs, path)

InitLoad ==
    /\ \E dopt \in DOptions({"file", "noread", "badtoml", "dir", "missing"}),
          ex \in ExprChoices : fs = MkFs(dopt, ex)
    /\ root \in {"a", "d"}
    /\ pc = "load"
    /\ reads = <<>>
    /\ LoadIdle
    /\ FlatIdle
    /\ MergeIdle
    /\ OtherIdle

\* load_toml_with_includes: a fresh Recursion Stack, then the inner call on
\* the root, whose canonical path it cannot hold yet
LoadRoot ==
    /\ pc = "load"
    /\ pc' = "run"
    /\ rec_stack' = {load_canonical(root)}
    /\ frames' = <<Frame(root, load_canonical(root), {})>>
    /\ loads' = <<root>>
    /\ UNCHANGED <<first, fs, root, reads, err, result, cyc, last_exit, flatVars, mergeVars>>
    /\ UNCHANGED otherVars

\* fs::read_to_string(path)? fails: the closure returns Err(Io)
LoadReadFails ==
    /\ pc = "run" /\ err = NoErr /\ frames # <<>> /\ Cur.st = "entered"
    /\ ~Readable(fs, Cur.path)
    /\ reads' = Append(reads, Cur.path)
    /\ err' = [kind |-> "io", path |-> Cur.path]
    /\ UNCHANGED <<first, fs, root, pc, frames, rec_stack, result, loads, cyc, last_exit,
                   flatVars, mergeVars>>
    /\ UNCHANGED otherVars

\* a loader that takes a file it cannot parse for an empty document
LoadParseFailsSkipped ==
    /\ pc = "run" /\ err = NoErr /\ frames # <<>> /\ Cur.st = "entered"
    /\ Readable(fs, Cur.path)
    /\ fs.kind[fs.canon[Cur.path]] = "badtoml"
    /\ reads' = Append(reads, Cur.path)
    /\ frames' = SetCur([Cur EXCEPT !.st = "loop"])
    /\ UNCHANGED <<first, fs, root, pc, rec_stack, err, result, loads, cyc, last_exit,
                   flatVars, mergeVars>>
    /\ UNCHANGED otherVars

\* toml::from_str(&content)? fails: the closure returns Err(Parse)
LoadParseFails ==
    /\ pc = "run" /\ err = NoErr /\ frames # <<>> /\ Cur.st = "entered"
    /\ Readable(fs, Cur.path)
    /\ fs.kind[fs.canon[Cur.path]] = "badtoml"
    /\ reads' = Append(reads, Cur.path)
    /\ err' = [kind |-> "parse", path |-> Cur.path]
    /\ UNCHANGED <<first, fs, root, pc, frames, rec_stack, result, loads, cyc, last_exit,
                   flatVars, mergeVars>>
    /\ UNCHANGED otherVars

\* the file is read and parsed; its include patterns are extracted
LoadParsed ==
    /\ pc = "run" /\ err = NoErr /\ frames # <<>> /\ Cur.st = "entered"
    /\ Readable(fs, Cur.path)
    /\ fs.kind[fs.canon[Cur.path]] # "badtoml"
    /\ reads' = Append(reads, Cur.path)
    /\ LET doc == ParsedDoc(fs, Cur.path)
       IN frames' = SetCur([Cur EXCEPT !.st = "loop", !.root_value = doc,
                               !.patterns = extract_include_patterns(doc, IncludeKey)])
    /\ UNCHANGED <<first, fs, root, pc, rec_stack, err, result, loads, cyc, last_exit,
                   flatVars, mergeVars>>
    /\ UNCHANGED otherVars

\* for pattern in include_patterns: resolve the next pattern
LoadNextPattern ==
    /\ pc = "run" /\ err = NoErr /\ frames # <<>> /\ Cur.st = "loop"
    /\ Cur.targets = <<>> /\ Cur.patterns # <<>>
    /\ frames' = SetCur([Cur EXCEPT
                           !.targets = resolve_source_targets(fs, Head(Cur.patterns)),
                           !.patterns = Tail(Cur.patterns)])
    /\ UNCHANGED <<first, fs, root, pc, reads, rec_stack, err, result, loads, cyc, last_exit,
                   flatVars, mergeVars>>
    /\ UNCHANGED otherVars

\* a loader for which a target that is no existing regular file is an error
LoadSkipTargetFails ==
    /\ pc = "run" /\ err = NoErr /\ frames # <<>> /\ Cur.st = "loop"
    /\ Cur.targets # <<>>
    /\ ~(Exists(fs, Head(Cur.targets)) /\ IsFile(fs, Head(Cur.targets)))
    /\ frames' = SetCur([Cur EXCEPT !.targets = Tail(Cur.targets)])
    /\ err' = [kind |-> "io", path |-> Head(Cur.targets)]
    /\ UNCHANGED <<first, fs, root, pc, reads, rec_stack, result, loads, cyc, last_exit,
                   flatVars, mergeVars>>
    /\ UNCHANGED otherVars

\* the target does not exist or is no regular file: continue
LoadSkipTarget ==
    /\ pc = "run" /\ err = NoErr /\ frames # <<>> /\ Cur.st = "loop"
    /\ Cur.targets # <<>>
    /\ ~(Exists(fs, Head(Cur.targets)) /\ IsFile(fs, Head(Cur.targets)))
    /\ frames' = SetCur([Cur EXCEPT !.targets = Tail(Cur.targets)])
    /\ UNCHANGED <<first, fs, root, pc, reads, rec_stack, err, result, loads, cyc, last_exit,
                   flatVars, mergeVars>>
    /\ UNCHANGED otherVars

\* the inner call on a target whose canonical path is on the Recursion
\* Stack returns Err(CyclicInclude(canonical)) and leaves the stack alone
LoadCyclic ==
    /\ pc = "run" /\ err = NoErr /\ frames # <<>> /\ Cur.st = "loop"
    /\ Cur.targets # <<>>
    /\ Exists(fs, Head(Cur.targets)) /\ IsFile(fs, Head(Cur.targets))
    /\ load_canonical(Head(Cur.targets)) \in rec_stack
    /\ err' = [kind |-> "cyclic", path |-> load_canonical(Head(Cur.targets))]
    /\ cyc' = [target |-> Head(Cur.targets),
               chain |-> {frames[i].canonical : i \in 1..Len(frames)}]
    /\ rec_stack' = rec_stack
    /\ last_exit' = [entry |-> rec_stack, exit |-> rec_stack',
                     path |-> Head(Cur.targets), ok |-> FALSE, doc |-> IntV(0)]
    /\ frames' = SetCur([Cur EXCEPT !.targets = Tail(Cur.targets)])
    /\ UNCHANGED <<first, fs, root, pc, reads, result, loads, flatVars, mergeVars>>
    /\ UNCHANGED otherVars

\* a loader that enters a target without looking at the Recursion Stack
LoadEnterUnchecked ==
    /\ pc = "run" /\ err = NoErr /\ frames # <<>> /\ Cur.st = "loop"
    /\ Cur.targets # <<>>
    /\ Exists(fs, Head(Cur.targets)) /\ IsFile(fs, Head(Cur.targets))
    /\ rec_stack' = rec_stack \cup {load_canonical(Head(Cur.targets))}
    /\ frames' = Append(SetCur([Cur EXCEPT !.targets = Tail(Cur.targets)]),
                        Frame(Head(Cur.targets),
                              load_canonical(Head(Cur.targets)), rec_stack))
    /\ loads' = Append(loads, Head(Cur.targets))
    /\ UNCHANGED <<first, fs, root, pc, reads, err, result, cyc, last_exit, flatVars, mergeVars>>
    /\ UNCHANGED otherVars

\* the inner call on a target not on the Recursion Stack: insert it
LoadEnter ==
    /\ pc = "run" /\ err = NoErr /\ frames # <<>> /\ Cur.st = "loop"
    /\ Cur.targets # <<>>
    /\ Exists(fs, Head(Cur.targets)) /\ IsFile(fs, Head(Cur.targets))
    /\ load_canonical(Head(Cur.targets)) \notin rec_stack
    /\ rec_stack' = rec_stack \cup {load_canonical(Head(Cur.targets))}
    /\ frames' = Append(SetCur([Cur EXCEPT !.targets = Tail(Cur.targets)]),
                        Frame(Head(Cur.targets),
                              load_canonical(Head(Cur.targets)), rec_stack))
    /\ loads' = Append(loads, Head(Cur.targets))
    /\ UNCHANGED <<first, fs, root, pc, reads, err, result, cyc, last_exit, flatVars, mergeVars>>
    /\ UNCHANGED otherVars

\* a loader in which the including file's values win over the included ones
LoadReturnOkBaseWins ==
    /\ pc = "run" /\ err = NoErr /\ frames # <<>> /\ Cur.st = "loop"
    /\ Cur.targets = <<>> /\ Cur.patterns = <<>>
    /\ rec_stack' = ExitStack(rec_stack, Cur.canonical)
    /\ last_exit' = [entry |-> Cur.entry, exit |-> rec_stack',
                     path |-> Cur.path, ok |-> TRUE, doc |-> Cur.root_value]
    /\ IF Len(frames) = 1
       THEN /\ frames' = <<>>
            /\ result' = [tag |-> "ok", doc |-> Cur.root_value, err |-> NoErr]
            /\ pc' = "done"
       ELSE /\ frames' = [Callers EXCEPT ![Len(frames) - 1].root_value =
                              merge_toml_values(Cur.root_value, @)]
            /\ UNCHANGED <<result, pc>>
    /\ UNCHANGED <<first, fs, root, reads, err, loads, cyc, flatVars, mergeVars>>
    /\ UNCHANGED otherVars

\* a loader that reads the include patterns of the including file again
\* from the accumulating document after each merge
LoadReturnOkReextracts ==
    /\ pc = "run" /\ err = NoErr /\ frames # <<>> /\ Cur.st = "loop"
    /\ Cur.targets = <<>> /\ Cur.patterns = <<>>
    /\ rec_stack' = ExitStack(rec_stack, Cur.canonical)
    /\ last_exit' = [entry |-> Cur.entry, exit |-> rec_stack',
                     path |-> Cur.path, ok |-> TRUE, doc |-> Cur.root_value]
    /\ IF Len(frames) = 1
       THEN /\ frames' = <<>>
            /\ result' = [tag |-> "ok", doc |-> Cur.root_value, err |-> NoErr]
            /\ pc' = "done"
       ELSE /\ LET acc == merge_toml_values(frames[Len(frames) - 1].root_value,
                                            Cur.root_value)
               IN frames' = [Callers EXCEPT
                               ![Len(frames) - 1].root_value = acc,
                               ![Len(frames) - 1].patterns =
                                   extract_include_patterns(acc, IncludeKey)]
            /\ UNCHANGED <<result, pc>>
    /\ UNCHANGED <<first, fs, root, reads, err, loads, cyc, flatVars, mergeVars>>
    /\ UNCHANGED otherVars

\* both loops are finished: the closure returns Ok(root_value), the path is
\* removed, and the caller merges the document into its own
LoadReturnOk ==
    /\ pc = "run" /\ err = NoErr /\ frames # <<>> /\ Cur.st = "loop"
    /\ Cur.targets = <<>> /\ Cur.patterns = <<>>
    /\ rec_stack' = ExitStack(rec_stack, Cur.canonical)
    /\ last_exit' = [entry |-> Cur.entry, exit |-> rec_stack',
                     path |-> Cur.path, ok |-> TRUE, doc |-> Cur.root_value]
    /\ IF Len(frames) = 1
       THEN /\ frames' = <<>>
            /\ result' = [tag |-> "ok", doc |-> Cur.root_value, err |-> NoErr]
            /\ pc' = "done"
       ELSE /\ frames' = [Callers EXCEPT ![Len(frames) - 1].root_value =
                              merge_toml_values(@, Cur.root_value)]
            /\ UNCHANGED <<result, pc>>
    /\ UNCHANGED <<first, fs, root, reads, err, loads, cyc, flatVars, mergeVars>>
    /\ UNCHANGED otherVars

\* a loader whose error path returns without the removal
LoadReturnErrLeaves ==
    /\ pc = "run" /\ err # NoErr /\ frames # <<>>
    /\ rec_stack' = rec_stack
    /\ last_exit' = [entry |-> Cur.entry, exit |-> rec_stack',
                     path |-> Cur.path, ok |-> FALSE, doc |-> IntV(0)]
    /\ frames' = Callers
    /\ IF Len(frames) = 1
       THEN /\ result' = [tag |-> "err", doc |-> IntV(0), err |-> err]
            /\ pc' = "done"
       ELSE UNCHANGED <<result, pc>>
    /\ UNCHANGED <<first, fs, root, reads, err, loads, cyc, flatVars, mergeVars>>
    /\ UNCHANGED otherVars

\* the closure returned Err (its own, or through ? from an inner call): the
\* path is removed and the error is returned to the caller
LoadReturnErr ==
    /\ pc = "run" /\ err # NoErr /\ frames # <<>>
    /\ rec_stack' = ExitStack(rec_stack, Cur.canonical)
    /\ last_exit' = [entry |-> Cur.entry, exit |-> rec_stack',
                     path |-> Cur.path, ok |-> FALSE, doc |-> IntV(0)]
    /\ frames' = Callers
    /\ IF Len(frames) = 1
       THEN /\ result' = [tag |-> "err", doc |-> IntV(0), err |-> err]
            /\ pc' = "done"
       ELSE UNCHANGED <<result, pc>>
    /\ UNCHANGED <<first, fs, root, reads, err, loads, cyc, flatVars, mergeVars>>
    /\ UNCHANGED otherVars

NextLoad ==
    \/ LoadRoot \/ LoadReadFails \/ LoadParseFails \/ LoadParsed
    \/ LoadNextPattern \/ LoadSkipTarget \/ LoadCyclic \/ LoadEnter
    \/ LoadReturnOk \/ LoadReturnErr

SpecLoad == InitLoad /\ [][NextLoad]_vars

----------------------------------------------------------------------------
(* Merge mode: properties *)

\* p loads: it can be read and is a TOML document
Parses(f, p) == f.kind[f.canon[p]] = "file"

\* the include targets of p that are loaded, in the order they are loaded:
\* expression after expression as declared, target after target as
\* resolved, the targets that are no existing regular files left out
IncludeTargets(f, p) ==
    LET es == f.exprs[f.canon[p]]
    IN SelectSeq(Concat([i \in 1..Len(es) |-> resolve_source_targets(f, es[i])]),
                 LAMBDA t : Exists(f, t) /\ IsFile(f, t))

IncludeEdges(f, p) == IF Parses(f, p) THEN Range(IncludeTargets(f, p)) ELSE {}

RECURSIVE IncludeReach(_, _)
\* the paths reachable from the set S through include expressions
IncludeReach(f, S) ==
    LET next == S \cup UNION {IncludeEdges(f, p) : p \in S}
    IN IF next = S THEN S ELSE IncludeReach(f, next)

\* p lies on a cycle of include expressions
OnIncludeCycle(f, p) ==
    \E t \in IncludeEdges(f, p) :
        Canonicalize(f, p) \in CanonSet(f, IncludeReach(f, {t}))

\* the include graph reachable from the root holds a cycle
CycleReachable(f, r) == \E p \in IncludeReach(f, {r}) : OnIncludeCycle(f, p)

\* every file reachable from the root loads
AllParse(f, r) == \A p \in IncludeReach(f, {r}) : Parses(f, p)

ActiveChain == {frames[i].canonical : i \in 1..Len(frames)}

\* C4: in merge mode, when every reachable file parses and the include
\* graph reachable from the root holds a cycle (a file including itself
\* counts), the load fails with CyclicInclude carrying the canonical path of
\* the file that was re-entered while on the active chain; the load is not
\* stuck before it returns and returns no document.
C4_CycleRejected ==
    LET cyclic == AllParse(fs, root) /\ CycleReachable(fs, root)
    IN /\ (pc # "done" /\ ~ENABLED NextLoad) => ~cyclic
       /\ err.kind \in {"io", "parse"} => ~cyclic
       /\ pc = "done" =>
             (cyclic =>
                /\ result.tag = "err"
                /\ result.err.kind = "cyclic"
                /\ result.err.path = Canonicalize(fs, cyc.target)
                /\ result.err.path \in cyc.chain
                /\ OnIncludeCycle(fs, result.err.path))

\* the chain a -> b -> c -> a loaded from a fails with CyclicInclude(a)
C4_Witness ==
    /\ pc = "done" /\ root = "a"
    /\ fs.exprs["a"] = <<"b">> /\ fs.exprs["b"] = <<"c">> /\ fs.exprs["c"] = <<"a">>
    /\ result.tag = "err" /\ result.err = [kind |-> "cyclic", path |-> "a"]
    /\ loads = <<"a", "b", "c">>

RECURSIVE Chains(_, _, _, _)
\* the number of include chains from p that end in the file z (fuel bounds
\* the depth, which an acyclic graph of the files keeps below their number)
Chains(f, p, z, fuel) ==
    LET ts == IncludeTargets(f, p)
        RECURSIVE Sum(_)
        Sum(i) == IF i > Len(ts) THEN 0 ELSE Chains(f, ts[i], z, fuel - 1) + Sum(i + 1)
    IN (IF Canonicalize(f, p) = z THEN 1 ELSE 0)
       + (IF fuel = 0 \/ ~Parses(f, p) THEN 0 ELSE Sum(1))

LoadsOf(z) == Cardinality({i \in 1..Len(loads) : Canonicalize(fs, loads[i]) = z})

\* C5: in merge mode CyclicInclude is raised only when the file being
\* entered is an ancestor on the current call chain, never because it was
\* fully loaded earlier in the same call: a load whose reachable include
\* graph has no cycle never raises it, and when all its files parse (a
\* diamond: the root includes X and Y, both include Z) it returns a document,
\* has loaded every file once per include chain that reaches it, and the
\* document holds every loaded file's own table entry.
C5_DiamondIsNoCycle ==
    /\ err.kind = "cyclic" =>
          /\ Canonicalize(fs, cyc.target) \in cyc.chain
          /\ err.path = Canonicalize(fs, cyc.target)
          /\ ActiveChain \subseteq cyc.chain
          /\ CycleReachable(fs, root)
    /\ pc = "done" =>
          ((~CycleReachable(fs, root) /\ AllParse(fs, root)) =>
             /\ result.tag = "ok"
             /\ \A z \in CanonSet(fs, IncludeReach(fs, {root})) :
                   /\ LoadsOf(z) = Chains(fs, root, z, Cardinality(Paths))
                   /\ z \in DOMAIN result.doc.t["t"].t
                   /\ result.doc.t["t"].t[z] = IntV(FileId(z)))

\* the diamond a -> b, c; b -> d; c -> d: d is loaded twice and is in the
\* document
C5_Witness ==
    /\ pc = "done" /\ root = "a" /\ fs.kind["d"] = "file" /\ fs.canon["d"] = "d"
    /\ fs.exprs["a"] = <<"b", "c">> /\ fs.exprs["b"] = <<"d">> /\ fs.exprs["c"] = <<"d">>
    /\ result.tag = "ok"
    /\ loads = <<"a", "b", "d", "c", "d">>
    /\ DOMAIN result.doc.t["t"].t = {"a", "b", "c", "d"}

\* C6: in merge mode the Recursion Stack is always exactly the set of
\* canonical paths of the files on the active call chain, one entry per
\* call; every inner call, returning a document or an error, leaves the
\* stack as it found it (a call rejected with CyclicInclude leaves the
\* ancestor's entry in place); the stack is empty when the load returns.
C6_StackIsActiveChain ==
    /\ rec_stack = ActiveChain
    /\ Cardinality(rec_stack) = Len(frames)
    /\ \A i \in 1..Len(frames) :
          /\ frames[i].canonical = Canonicalize(fs, frames[i].path)
          /\ frames[i].entry = {frames[j].canonical : j \in 1..(i - 1)}
    /\ last_exit.exit = last_exit.entry
    /\ pc = "done" => rec_stack = {}

\* a load that failed two calls deep on a file it could not read or parse
C6_Witness ==
    /\ pc = "done"
    /\ result.tag = "err" /\ result.err.kind \in {"io", "parse"}
    /\ Len(loads) >= 3
    /\ last_exit.path = root

RECURSIVE FoldMerge(_, _)
\* doc with the documents of ds merged into it one after the other
FoldMerge(doc, ds) ==
    IF ds = <<>> THEN doc
    ELSE FoldMerge(merge_toml_values(doc, Head(ds)), Tail(ds))

RECURSIVE LoadedDoc(_, _, _)
\* the file's own parsed document with the loaded document of each of its
\* include targets merged into it, in order
LoadedDoc(f, p, fuel) ==
    LET ts == IncludeTargets(f, p)
    IN IF fuel = 0 THEN ParsedDoc(f, p)
       ELSE FoldMerge(ParsedDoc(f, p),
                      [i \in 1..Len(ts) |-> LoadedDoc(f, ts[i], fuel - 1)])

\* C9: in merge mode the document an inner call returns for a file is the
\* file's own parsed document with the loaded document of each existing
\* regular-file target merged into it one after the other, in the order the
\* expressions are declared and, within an expression, the targets were
\* resolved; so the scalar key every file sets has the value of the file
\* loaded last, and the array under the include key that of the last loaded
\* file that declares one.
C9_MergedInDeclaredOrder ==
    /\ last_exit.ok => last_exit.doc = LoadedDoc(fs, last_exit.path, Cardinality(Paths))
    /\ (pc = "done" /\ result.tag = "ok") =>
          /\ result.doc = LoadedDoc(fs, root, Cardinality(Paths))
          /\ result.doc.t["k"] = IntV(FileId(Canonicalize(fs, loads[Len(loads)])))
          /\ \A i \in 1..Len(loads) :
                (/\ fs.exprs[fs.canon[loads[i]]] # <<>>
                 /\ \A j \in (i + 1)..Len(loads) : fs.exprs[fs.canon[loads[j]]] = <<>>)
                => result.doc.t[IncludeKey] = ParsedDoc(fs, loads[i]).t[IncludeKey]

\* a load of a with includes b and c, b including d: c, merged last, sets
\* the scalar key although d was loaded through b
C9_Witness ==
    /\ pc = "done" /\ root = "a" /\ result.tag = "ok"
    /\ loads = <<"a", "b", "d", "c">>
    /\ fs.canon["d"] = "d"
    /\ result.doc.t["k"] = IntV(FileId("c"))

\* C11: in merge mode the load is all-or-nothing.  A root that cannot be read
\* fails the call with an I/O error; a loaded file (root or included) that
\* cannot be parsed fails the call with the parse error of that file.  Once
\* an error is raised every step is the return of the innermost active call
\* with that same error and nothing more is entered, read or merged; the
\* call returns Err exactly when an error was raised, and a document only
\* when every file it entered was read and parsed.
C11_AllOrNothing ==
    /\ [](pc = "done" =>
            /\ ~Readable(fs, root) => result = [tag |-> "err", doc |-> IntV(0),
                                                err |-> [kind |-> "io", path |-> root]]
            /\ \A i \in 1..Len(loads) :
                  fs.kind[fs.canon[loads[i]]] = "badtoml" =>
                     /\ i = Len(loads)
                     /\ result.tag = "err"
                     /\ result.err = [kind |-> "parse", path |-> loads[i]]
            /\ (result.tag = "err") = (err # NoErr)
            /\ result.tag = "err" => result.err = err
            /\ result.tag = "ok" =>
                  /\ \A i \in 1..Len(loads) : Parses(fs, loads[i])
                  /\ reads = loads)
    /\ [][(err # NoErr) =>
             /\ err' = err
             /\ frames' = Callers
             /\ loads' = loads /\ reads' = reads
             /\ result'.tag \in {"none", "err"}]_vars

\* a includes d, which is no TOML document, and then b: the call fails with
\* the parse error of d and b is never loaded
C11_Witness ==
    /\ pc = "done" /\ root = "a"
    /\ fs.exprs["a"] = <<"d", "b">> /\ fs.kind["d"] = "badtoml"
    /\ result.tag = "err" /\ result.err = [kind |-> "parse", path |-> "d"]
    /\ loads = <<"a", "d">> /\ reads = <<"a", "d">>

\* the canonical paths a load of root can enter: the root, whatever it is,
\* and the regular files
LoadableFiles ==
    {Canonicalize(fs, root)} \cup
    {Canonicalize(fs, p) : p \in {q \in Paths : Exists(fs, q) /\ IsFile(fs, q)}}

RECURSIVE Pow(_, _)
Pow(b, n) == IF n = 0 THEN 1 ELSE b * Pow(b, n - 1)

\* what one active call has left to do: its return, its targets, and its
\* patterns, each worth more than the targets it can resolve to; a call
\* that has not parsed its file yet is worth more than any that has
FrameLeft(fr) ==
    LET perPattern == Cardinality(Paths) + 1
    IN IF fr.st = "entered" THEN perPattern * MaxExprs + 2
       ELSE perPattern * Len(fr.patterns) + Len(fr.targets) + 1

\* what is left of a load: the active calls, a call weighing more than all
\* the calls that can be made below it, then the error not raised yet; the
\* load not started weighs more than any started one
LoadMeasure ==
    LET weight == (Cardinality(Paths) + 1) * MaxExprs + 3
        depth == Cardinality(CanonSet(fs, Paths))
        RECURSIVE Sum(_)
        Sum(i) == IF i = 0 THEN 0
                  ELSE FrameLeft(frames[i]) * Pow(weight, depth - i) + Sum(i - 1)
    IN IF pc = "load" THEN 2 * Pow(weight, depth + 1)
       ELSE 2 * Sum(Len(frames)) + (IF err = NoErr /\ pc # "done" THEN 1 ELSE 0)

\* C19: in merge mode load_toml_with_includes terminates on every finite
\* file graph and returns a document or an error.  The active calls are on
\* distinct canonical paths, all of them on the Recursion Stack, so the
\* recursion depth never exceeds the number of distinct canonical files; a
\* target on the active chain is not entered; every step strictly lowers
\* LoadMeasure, which is never negative; a load that is not done can take a
\* step, and a load that is done has returned Ok or Err.
C19_LoadTerminates ==
    /\ [](/\ Len(frames) = Cardinality(ActiveChain)
          /\ ActiveChain \subseteq rec_stack
          /\ rec_stack \subseteq LoadableFiles
          /\ Len(frames) <= Cardinality(LoadableFiles)
          /\ Len(frames) <= Cardinality(CanonSet(fs, Paths)))
    /\ [](LoadMeasure >= 0)
    /\ [](pc # "done" => ENABLED NextLoad)
    /\ [](pc = "done" => frames = <<>> /\ result.tag \in {"ok", "err"})
    /\ [][/\ LoadMeasure' < LoadMeasure
          /\ Len(frames') > Len(frames) =>
                /\ frames'[Len(frames')].canonical \notin ActiveChain
                /\ Len(frames') = Len(frames) + 1]_vars

\* a load on the cycle a -> b -> c -> a at its deepest: three active calls,
\* the include of a from c about to be rejected
C19_Witness ==
    /\ pc = "run" /\ err = NoErr
    /\ Len(frames) = 3
    /\ Cur.st = "loop" /\ Cur.targets # <<>>
    /\ Canonicalize(fs, Head(Cur.targets)) = frames[1].canonical

\* s is the end of t
IsSuffix(s, t) == Len(s) <= Len(t) /\ s = SubSeq(t, Len(t) - Len(s) + 1, Len(t))

\* the include patterns of the file of the active call fr, from the file's
\* own parsed document
OwnPatterns(fr) == extract_include_patterns(ParsedDoc(fs, fr.path), IncludeKey)

\* an array element that is no string
OtherEl(v) == [is_str |-> FALSE, v |-> v]

\* documents whose include key is absent, no array, an array with elements
\* that are no strings, or an array of strings
IncludeShapes ==
    LET vals == {IntV(1), TblV([x \in {"a"} |-> IntV(1)]),
                 ArrV(<<>>), ArrV(<<OtherEl("1")>>),
                 ArrV(<<StrEl("b"), OtherEl("1"), StrEl("a")>>),
                 ArrV(<<OtherEl("1"), StrEl("c"), OtherEl("[]")>>),
                 ArrV(<<StrEl("c"), StrEl("b")>>)}
    IN {TblV([x \in {"k"} |-> IntV(1)])}
       \cup {TblV([x \in {"k", IncludeKey} |-> IF x = "k" THEN IntV(1) ELSE v]) : v \in vals}

\* C20: in merge mode the include expressions followed for a file are the
\* string elements of the include-key array of the file's own parsed
\* document, in array order, fixed before any merging.  The patterns an
\* active call has still to follow are at every moment the end of that
\* list; the only step that changes them takes the first one and resolves
\* it; the call returns when none is left.  The return of an inner call,
\* which merges its document into the accumulating one, leaves the patterns
\* and pending targets of every caller as they were, also when it
\* overwrites the include key.  A document without the key or with a value
\* that is no array has no include patterns, and array elements that are no
\* strings are left out.
C20_IncludesFixedBeforeMerge ==
    /\ [](\A i \in 1..Len(frames) :
            /\ frames[i].st = "loop" => IsSuffix(frames[i].patterns, OwnPatterns(frames[i]))
            /\ frames[i].st = "entered" => frames[i].patterns = <<>> /\ frames[i].targets = <<>>)
    /\ [](\A d \in IncludeShapes :
            LET ps == extract_include_patterns(d, IncludeKey)
            IN /\ (IncludeKey \notin DOMAIN d.t \/ d.t[IncludeKey].tag # "arr") => ps = <<>>
               /\ (IncludeKey \in DOMAIN d.t /\ d.t[IncludeKey].tag = "arr") =>
                     LET strs == SelectSeq(d.t[IncludeKey].a, LAMBDA e : e.is_str)
                     IN /\ Len(ps) = Len(strs)
                        /\ \A k \in 1..Len(ps) : ps[k] = strs[k].v)
    /\ [][\A i \in 1..Len(frames) :
            (i <= Len(frames') /\ frames[i].st = "loop") =>
               LET old == frames[i]
                   new == frames'[i]
               IN /\ \/ /\ new.patterns = old.patterns
                        /\ \/ new.targets = old.targets
                           \/ /\ i = Len(frames) /\ old.targets # <<>>
                              /\ new.targets = Tail(old.targets)
                     \/ /\ i = Len(frames) /\ Len(frames') = Len(frames)
                        /\ old.targets = <<>> /\ old.patterns # <<>>
                        /\ new.patterns = Tail(old.patterns)
                        /\ new.targets = resolve_source_targets(fs, Head(old.patterns))
                  /\ new.root_value # old.root_value =>
                        /\ Len(frames') = Len(frames) - 1 /\ i = Len(frames')
                        /\ Cur.patterns = <<>> /\ Cur.targets = <<>>
                        /\ new.root_value = merge_toml_values(old.root_value, Cur.root_value)
                        /\ new.patterns = old.patterns /\ new.targets = old.targets]_vars

\* a load of a with includes b and c, b including d: b has returned, the
\* accumulating document of a holds the include array of b, and a still has
\* its own pattern c to follow
C20_Witness ==
    /\ pc = "run" /\ err = NoErr /\ Len(frames) = 1
    /\ frames[1].st = "loop"
    /\ frames[1].patterns = <<"c">>
    /\ OwnPatterns(frames[1]) = <<"b", "c">>
    /\ extract_include_patterns(frames[1].root_value, IncludeKey) = <<"d">>

----------------------------------------------------------------------------
(* Merge mode, loaded twice: on the filesystem as found, then with the       *)
(* dangling include expressions taken out of every include array             *)

\* e names no existing regular file
Dangling(f, e) == ~has_glob_chars(e) /\ ~(Exists(f, e) /\ IsFile(f, e))

\* the filesystem with every dangling expression absent from its array
StripDangling(f) ==
    [f EXCEPT !.exprs = [p \in Paths |->
                            SelectSeq(f.exprs[p], LAMBDA e : ~Dangling(f, e))]]

\* d is missing or a directory, so no file fails to parse
InitDangling ==
    /\ \E dk \in {"missing", "dir"}, ex \in ExprChoices : fs = MkFs(<<dk, "d">>, ex)
    /\ root \in {"a", "d"}
    /\ pc = "load"
    /\ reads = <<>>
    /\ LoadIdle
    /\ FlatIdle
    /\ MergeIdle
    /\ OtherIdle

\* the same call again, on the stripped filesystem
LoadAgain ==
    /\ pc = "done" /\ first = NoResult
    /\ first' = result
    /\ fs' = StripDangling(fs)
    /\ pc' = "load"
    /\ reads' = <<>>
    /\ frames' = <<>> /\ rec_stack' = {} /\ err' = NoErr /\ result' = NoResult
    /\ loads' = <<>> /\ cyc' = NoCyc /\ last_exit' = NoExit
    /\ UNCHANGED <<root, flatVars, mergeVars>>
    /\ UNCHANGED otherVars

NextDangling ==
    \/ LoadRoot \/ LoadReadFails \/ LoadParsed
    \/ LoadNextPattern \/ LoadSkipTarget \/ LoadCyclic \/ LoadEnter
    \/ LoadReturnOk \/ LoadReturnErr
    \/ LoadAgain

SpecDangling == InitDangling /\ [][NextDangling]_vars

\* doc without its top-level key
Without(doc, key) == TblV([k \in DOMAIN doc.t \ {key} |-> doc.t[k]])

\* C10: in merge mode an include expression whose target does not exist or
\* is no regular file is never loaded and is no error: no inner call is made
\* for it, no error carries its path, and the load returns what it returns
\* with the expression absent from the include array: the same error, or
\* the same document apart from the value of the include key.
C10_DanglingIncludeIgnored ==
    /\ \A i \in 2..Len(loads) : Exists(fs, loads[i]) /\ IsFile(fs, loads[i])
    /\ \A i \in 1..Len(reads) : reads[i] = root \/ (Exists(fs, reads[i]) /\ IsFile(fs, reads[i]))
    /\ err.kind = "io" => err.path = root
    /\ (pc = "done" /\ first # NoResult) =>
          /\ result.tag = first.tag
          /\ result.err = first.err
          /\ result.tag = "ok" =>
                Without(result.doc, IncludeKey) = Without(first.doc, IncludeKey)

\* a includes the missing d and then b: both loads return the same
\* document but for the include array
C10_Witness ==
    /\ pc = "done" /\ first # NoResult /\ root = "a"
    /\ fs.kind["d"] = "missing"
    /\ first.tag = "ok" /\ result.tag = "ok"
    /\ IncludeKey \in DOMAIN first.doc.t /\ IncludeKey \in DOMAIN result.doc.t
    /\ first.doc.t[IncludeKey] = ArrV(<<StrEl("d"), StrEl("b")>>)
    /\ result.doc.t[IncludeKey] = ArrV(<<StrEl("b")>>)
    /\ loads = <<"a", "b">>

----------------------------------------------------------------------------
(* Structural Merger: merge_toml_values on its own *)

\* the keys of a document and of the tables in it
Keys == {"a", "b"}

SubKeys == {"x", "y"}

\* scalars and arrays
Leaves == {IntV(n) : n \in 1..MaxInt} \cup {ArrV(<<StrEl("s")>>)}

TablesOver(K, V) == {TblV(m) : m \in UNION {[D -> V] : D \in SUBSET K}}

\* values nested one and two tables deep
Values1 == Leaves \cup TablesOver(SubKeys, Leaves)

Values2 == Leaves \cup TablesOver(Keys, Values1)

InitMerge ==
    /\ base \in Values2
    /\ other \in Values2
    /\ merged = IntV(0)
    /\ pc = "merge"
    /\ fs = MkFs(<<"missing", "d">>, [c \in Configs |-> <<>>])
    /\ root = "a"
    /\ reads = <<>>
    /\ FlatIdle
    /\ LoadIdle
    /\ OtherIdle

\* merge_toml_values(&mut base, other)
MergeCall ==
    /\ pc = "merge"
    /\ merged' = merge_toml_values(base, other)
    /\ pc' = "done"
    /\ UNCHANGED <<fs, root, reads, base, other, flatVars, loadVars>>
    /\ UNCHANGED otherVars

\* merge_toml_values(&mut base, other) once more with the same incoming
\* document, as the include loop does for a file it loads twice in a row
MergeAgain ==
    /\ pc = "done"
    /\ merged' = merge_toml_values(merged, other)
    /\ pc' = "again"
    /\ UNCHANGED <<fs, root, reads, base, other, flatVars, loadVars>>
    /\ UNCHANGED otherVars

NextMerge == MergeCall \/ MergeAgain

SpecMerge == InitMerge /\ [][NextMerge]_vars

----------------------------------------------------------------------------
(* Structural Merger: properties *)

Both(b, o) == DOMAIN b.t \cap DOMAIN o.t

\* C7: for two tables base and incoming the merge has the union of both key
\* sets; a key only in base keeps its base value, a key only in incoming
\* gets the incoming value, and a key in both gets the merge of the two
\* values, which for two tables is again the table of the union of their
\* keys with each key's value so chosen.  {a: {x: 1}} merged with
\* {a: {y: 2}} is {a: {x: 1, y: 2}}.
C7_TablesMergeByKey ==
    (pc = "done" /\ IsTable(base) /\ IsTable(other)) =>
        /\ IsTable(merged)
        /\ DOMAIN merged.t = DOMAIN base.t \cup DOMAIN other.t
        /\ \A k \in DOMAIN base.t \ DOMAIN other.t : merged.t[k] = base.t[k]
        /\ \A k \in DOMAIN other.t \ DOMAIN base.t : merged.t[k] = other.t[k]
        /\ \A k \in Both(base, other) :
              /\ merged.t[k] = merge_toml_values(base.t[k], other.t[k])
              /\ (IsTable(base.t[k]) /\ IsTable(other.t[k])) =>
                    /\ IsTable(merged.t[k])
                    /\ DOMAIN merged.t[k].t = DOMAIN base.t[k].t \cup DOMAIN other.t[k].t
                    /\ \A j \in DOMAIN base.t[k].t \ DOMAIN other.t[k].t :
                          merged.t[k].t[j] = base.t[k].t[j]
                    /\ \A j \in DOMAIN other.t[k].t :
                          merged.t[k].t[j] = other.t[k].t[j]
        /\ (/\ base = TblV([k \in {"a"} |-> TblV([j \in {"x"} |-> IntV(1)])])
            /\ other = TblV([k \in {"a"} |-> TblV([j \in {"y"} |-> IntV(2)])]))
           => merged = TblV([k \in {"a"} |->
                              TblV([j \in {"x", "y"} |->
                                     IF j = "x" THEN IntV(1) ELSE IntV(2)])])

\* {a: {x: 1}, b: 1} merged with {a: {y: 2}}
C7_Witness ==
    /\ pc = "done"
    /\ base = TblV([k \in {"a", "b"} |->
                      IF k = "a" THEN TblV([j \in {"x"} |-> IntV(1)]) ELSE IntV(1)])
    /\ other = TblV([k \in {"a"} |-> TblV([j \in {"y"} |-> IntV(2)])])
    /\ merged.t["b"] = IntV(1)
    /\ DOMAIN merged.t["a"].t = {"x", "y"}

\* C8: whenever base or incoming at a position is not a table, the merge at
\* that position is exactly incoming: at the top, under a key both tables
\* hold, and under a key both of their tables hold; nothing of base is kept
\* there and an array is replaced, never extended.
C8_NonTableReplaced ==
    pc = "done" =>
        /\ (~IsTable(base) \/ ~IsTable(other)) => merged = other
        /\ (IsTable(base) /\ IsTable(other)) =>
              \A k \in Both(base, other) :
                 /\ (~IsTable(base.t[k]) \/ ~IsTable(other.t[k]))
                       => merged.t[k] = other.t[k]
                 /\ (IsTable(base.t[k]) /\ IsTable(other.t[k])) =>
                       \A j \in Both(base.t[k], other.t[k]) :
                           merged.t[k].t[j] = other.t[k].t[j]

\* a table under a, replaced by an array, beside an array replaced by itself
C8_Witness ==
    /\ pc = "done"
    /\ IsTable(base) /\ IsTable(other)
    /\ DOMAIN base.t = {"a", "b"} /\ DOMAIN other.t = {"a", "b"}
    /\ IsTable(base.t["a"]) /\ base.t["a"].t # <<>> /\ other.t["a"].tag = "arr"
    /\ base.t["b"].tag = "arr" /\ other.t["b"].tag = "arr"
    /\ merged = other

\* C21: the structural merge is idempotent in its incoming argument.
\* Merging the same incoming document a second time leaves the merged
\* document as the first merge made it, merge(merge(a, b), b) = merge(a, b),
\* at the top and so under every key; and a document merged with itself is
\* that document, merge(a, a) = a.  So an included file merged twice in a
\* row contributes what it contributes when merged once.
C21_MergeIdempotent ==
    /\ [](pc = "again" => merged = merge_toml_values(base, other))
    /\ []((pc \in {"done", "again"} /\ other = base) => merged = base)
    /\ [][(pc = "done" /\ pc' = "again") =>
            /\ merged' = merged
            /\ merged' = merge_toml_values(merge_toml_values(base, other), other)]_vars

\* {a: {x: 1}, b: [s]} merged twice with {a: {x: 2, y: 2}, b: [s]}: tables
\* under a shared key, a scalar overwritten and an array met again
C21_Witness ==
    /\ pc = "again"
    /\ base = TblV([k \in {"a", "b"} |->
                      IF k = "a" THEN TblV([j \in {"x"} |-> IntV(1)])
                      ELSE ArrV(<<StrEl("s")>>)])
    /\ other = TblV([k \in {"a", "b"} |->
                       IF k = "a" THEN TblV([j \in {"x", "y"} |-> IntV(2)])
                       ELSE ArrV(<<StrEl("s")>>)])
    /\ merged = other
    /\ merged # base

----------------------------------------------------------------------------
(* Strings and paths.  A string is the sequence of its characters; a path   *)
(* (Path, PathBuf) is its string.                                           *)

\* stands for a byte in a path that is no valid UTF-8 (0xFF)
Invalid == "<FF>"

\* char::is_whitespace, for the characters that occur
IsSpace(c) == c \in {" ", "\t", "\r", "\n"}

RECURSIVE trim_start(_)
\* str::trim_start
trim_start(s) == IF s # <<>> /\ IsSpace(Head(s)) THEN trim_start(Tail(s)) ELSE s

RECURSIVE trim_end(_)
\* str::trim_end
trim_end(s) ==
    IF s # <<>> /\ IsSpace(s[Len(s)]) THEN trim_end(SubSeq(s, 1, Len(s) - 1)) ELSE s

\* str::trim
trim(s) == trim_end(trim_start(s))

\* str::starts_with
starts_with(s, p) == Len(s) >= Len(p) /\ SubSeq(s, 1, Len(p)) = p

\* the rest of s after its first n characters
Drop(s, n) == SubSeq(s, n + 1, Len(s))

\* str::contains(char)
contains(s, c) == \E i \in 1..Len(s) : s[i] = c

RECURSIVE replace(_, _, _)
\* str::replace: every non-overlapping match of from, left to right
replace(s, from, to) ==
    IF Len(s) < Len(from) THEN s
    ELSE IF starts_with(s, from) THEN to \o replace(Drop(s, Len(from)), from, to)
    ELSE <<Head(s)>> \o replace(Tail(s), from, to)

\* Path::to_str: Some unless the path holds invalid UTF-8
to_str_is_some(p) == ~contains(p, Invalid)

\* Path::is_absolute
is_absolute(p) == p # <<>> /\ Head(p) = "/"

\* Path::join: an absolute path replaces the receiver, any other path is
\* appended behind a separator the receiver does not end with already
join(p, q) ==
    IF is_absolute(q) THEN q
    ELSE IF p = <<>> \/ p[Len(p)] = "/" THEN p \o q
    ELSE p \o <<"/">> \o q

----------------------------------------------------------------------------
(* Path Expander: expand_source_expression_to_path, resolve_source_targets  *)

TokenBraced == <<"$", "{", "H", "O", "M", "E", "}">>

TokenPlain == <<"$", "H", "O", "M", "E">>

Tilde == <<"~", "/">>

\* has_glob_chars on the characters of the string
has_glob_chars_str(v) == contains(v, "*") \/ contains(v, "?") \/ contains(v, "[")

\* expand_source_expression_to_path
expand_source_expression_to_path(v, bdir, hdir) ==
    LET trimmed == trim(v)
        out1 == IF to_str_is_some(hdir)
                THEN replace(replace(trimmed, TokenBraced, hdir), TokenPlain, hdir)
                ELSE trimmed
    IN IF starts_with(out1, Tilde) THEN join(hdir, Drop(out1, 2))
       ELSE IF is_absolute(out1) THEN out1
       ELSE join(bdir, out1)

\* resolve_source_targets: what glob::glob yields for the pattern is g, "err"
\* for a malformed pattern or the matching entries, each a path and whether
\* it exists as a regular file
resolve_source_targets_str(v, bdir, hdir, g) ==
    LET e == expand_source_expression_to_path(v, bdir, hdir)
    IN IF has_glob_chars_str(e)
       THEN IF g.err THEN <<>>
            ELSE LET kept == SelectSeq(g.paths, LAMBDA m : m.is_file)
                 IN [i \in 1..Len(kept) |-> kept[i].path]
       ELSE <<e>>

\* the values: a home or root marker, or none, before a rest, with or
\* without blanks around them
Pads == {<<>>, <<" ">>}

Heads ==
    {<<>>, Tilde, TokenPlain \o <<"/">>, TokenBraced \o <<"/">>, <<"/">>, <<"~">>,
     <<"a", "/">> \o Tilde}

Rests == {<<"x">>, <<>>, <<"*">>, <<"x">> \o TokenPlain, <<"/", "x">>}

Values == {p \o h \o r \o p : p \in Pads, h \in Heads, r \in Rests}

\* home directories: absolute, with a trailing separator, the root,
\* relative, one that is no valid UTF-8, and one whose name holds the token
Homes ==
    {<<"/", "h">>, <<"/", "h", "/">>, <<"/">>, <<"h">>, <<"/", Invalid>>,
     <<"/", "a">> \o TokenPlain}

\* base directories: absolute, relative, empty, and one with a bracket in its
\* name
Bases == {<<"/", "b">>, <<"b">>, <<>>, <<"/", "b", "[", "1", "]">>}

Entry(p, f) == [path |-> p, is_file |-> f]

\* what glob::glob may yield: an error, nothing, a file, a directory and a
\* file, two files
Globs ==
    {[err |-> TRUE, paths |-> <<>>],
     [err |-> FALSE, paths |-> <<>>],
     [err |-> FALSE, paths |-> <<Entry(<<"/", "m">>, TRUE)>>],
     [err |-> FALSE, paths |-> <<Entry(<<"/", "k">>, FALSE), Entry(<<"/", "m">>, TRUE)>>],
     [err |-> FALSE, paths |-> <<Entry(<<"/", "m">>, TRUE), Entry(<<"/", "n">>, TRUE)>>]}

NoGlob == [err |-> FALSE, paths |-> <<>>]

InitPath ==
    /\ src_value \in Values
    /\ base_dir \in Bases
    /\ home_dir \in Homes
    /\ \/ pc = "expand" /\ globbed = NoGlob
       \/ pc = "resolve" /\ globbed \in Globs
    /\ expanded = <<>>
    /\ targets = <<>>
    /\ fs = MkFs(<<"missing", "d">>, [c \in Configs |-> <<>>])
    /\ root = "a"
    /\ reads = <<>>
    /\ FlatIdle /\ LoadIdle /\ MergeIdle
    /\ TextIdle /\ ConfIdle /\ CallIdle

\* expand_source_expression_to_path(value, base_dir, home_dir)
ExpandCall ==
    /\ pc = "expand"
    /\ expanded' = expand_source_expression_to_path(src_value, base_dir, home_dir)
    /\ pc' = "expanded"
    /\ UNCHANGED <<src_value, base_dir, home_dir, globbed, targets>>
    /\ UNCHANGED <<fs, root, reads, flatVars, loadVars, mergeVars, textVars, confVars, calls>>

\* resolve_source_targets(value, base_dir, home_dir)
ResolveCall ==
    /\ pc = "resolve"
    /\ expanded' = expand_source_expression_to_path(src_value, base_dir, home_dir)
    /\ targets' = resolve_source_targets_str(src_value, base_dir, home_dir, globbed)
    /\ pc' = "resolved"
    /\ UNCHANGED <<src_value, base_dir, home_dir, globbed>>
    /\ UNCHANGED <<fs, root, reads, flatVars, loadVars, mergeVars, textVars, confVars, calls>>

NextPath == ExpandCall \/ ResolveCall

SpecPath == InitPath /\ [][NextPath]_vars

----------------------------------------------------------------------------
(* Path Expander: properties *)

\* C12: for every expression that holds none of '*', '?' and '[', and for
\* every base_dir, home_dir and filesystem, resolve_source_targets returns
\* exactly one path, the expanded path.  (has_glob_chars is asked of the
\* expanded path, so a bracket in base_dir or home_dir makes a glob of it.)
C12_NonGlobYieldsOnePath ==
    (pc = "resolved" /\ ~has_glob_chars_str(src_value)) => targets = <<expanded>>

RECURSIVE Split(_, _)
\* the parts of s between the occurrences of the character c
Split(s, c) ==
    IF ~contains(s, c) THEN <<s>>
    ELSE LET i == CHOOSE k \in 1..Len(s) : s[k] = c /\ \A j \in 1..(k - 1) : s[j] # c
         IN <<SubSeq(s, 1, i - 1)>> \o Split(Drop(s, i), c)

\* Path::components: whether the path is rooted, and its names; repeated
\* and trailing separators do not count (no path here has a "." component)
Components(p) ==
    [rooted |-> is_absolute(p),
     names |-> SelectSeq(Split(p, "/"), LAMBDA n : n # <<>>)]

\* PathBuf == PathBuf: the same components
PathEq(p, q) == Components(p) = Components(q)

HomeX == {Tilde \o <<"x">>, TokenPlain \o <<"/", "x">>, TokenBraced \o <<"/", "x">>}

RECURSIVE SubstituteTokens(_, _)
\* s with every ${HOME} and every $HOME replaced by h, in one pass from the
\* left; what h holds is not looked at again
SubstituteTokens(s, h) ==
    IF s = <<>> THEN <<>>
    ELSE IF starts_with(s, TokenBraced)
    THEN h \o SubstituteTokens(Drop(s, Len(TokenBraced)), h)
    ELSE IF starts_with(s, TokenPlain)
    THEN h \o SubstituteTokens(Drop(s, Len(TokenPlain)), h)
    ELSE <<Head(s)>> \o SubstituteTokens(Tail(s), h)

\* C13: for a home directory whose string form can be substituted (valid
\* UTF-8), expand_source_expression_to_path applies its rules in a fixed
\* order to the value with every ${HOME} and $HOME replaced by the home
\* directory: a string starting with "~/" yields home_dir joined with the
\* rest for any base_dir; otherwise an absolute string is returned
\* unchanged; otherwise the result is base_dir joined with the string.  In
\* particular "~/x", "$HOME/x" and "${HOME}/x" all expand to
\* home_dir.join("x") for any base_dir.  (It fails for a relative home
\* directory, whose "$HOME/x" is resolved against base_dir, and for a home
\* directory whose name holds $HOME, which is substituted a second time.)
C13_ExpandPrecedenceAnyHome ==
    (pc = "expanded" /\ to_str_is_some(home_dir)) =>
        LET sub == SubstituteTokens(trim(src_value), home_dir)
        IN /\ starts_with(sub, Tilde) => expanded = join(home_dir, Drop(sub, 2))
           /\ (~starts_with(sub, Tilde) /\ is_absolute(sub)) => expanded = sub
           /\ (~starts_with(sub, Tilde) /\ ~is_absolute(sub))
                 => expanded = join(base_dir, sub)
           /\ trim(src_value) \in HomeX => PathEq(expanded, join(home_dir, <<"x">>))

----------------------------------------------------------------------------
(* Directive Extractor: parse_source_value, extract_sources                 *)

\* longest content, in lines
MaxLines == 3

Quote == "\""

Apostrophe == "'"

Keyword == <<"s", "o", "u", "r", "c", "e">>

\* the index of the first c in s, 0 when there is none
Find(s, c) ==
    IF contains(s, c)
    THEN CHOOSE k \in 1..Len(s) : s[k] = c /\ \A j \in 1..(k - 1) : s[j] # c
    ELSE 0

\* strip_comment: the line up to its first '#'
strip_comment(l) == IF contains(l, "#") THEN SubSeq(l, 1, Find(l, "#") - 1) ELSE l

RECURSIVE trim_start_matches(_, _)
\* str::trim_start_matches(char)
trim_start_matches(s, c) ==
    IF s # <<>> /\ Head(s) = c THEN trim_start_matches(Tail(s), c) ELSE s

RECURSIVE trim_end_matches(_, _)
\* str::trim_end_matches(char)
trim_end_matches(s, c) ==
    IF s # <<>> /\ s[Len(s)] = c
    THEN trim_end_matches(SubSeq(s, 1, Len(s) - 1), c) ELSE s

\* str::trim_matches(char): every c at the start and at the end
trim_matches(s, c) == trim_end_matches(trim_start_matches(s, c), c)

\* parse_source_value: <<>> for None, <<value>> for Some(value)
parse_source_value(l) ==
    LET clean == trim(strip_comment(l))
        eq == Find(clean, "=")
        lhs == SubSeq(clean, 1, eq - 1)
        rhs == Drop(clean, eq)
        v == trim_matches(trim_matches(trim(rhs), Quote), Apostrophe)
    IN IF clean = <<>> \/ eq = 0 THEN <<>>
       ELSE IF trim(lhs) # Keyword THEN <<>>
       ELSE IF v = <<>> THEN <<>>
       ELSE <<v>>

RECURSIVE lines(_)
\* str::lines: the text between line endings, "\n" or "\r\n"; the last line
\* needs no ending
lines(txt) ==
    IF txt = <<>> THEN <<>>
    ELSE LET n == Find(txt, "\n")
             raw == IF n = 0 THEN txt ELSE SubSeq(txt, 1, n - 1)
             l == IF n # 0 /\ raw # <<>> /\ raw[Len(raw)] = "\r"
                  THEN SubSeq(raw, 1, Len(raw) - 1) ELSE raw
         IN <<l>> \o (IF n = 0 THEN <<>> ELSE lines(Drop(txt, n)))

RECURSIVE ExtractLoopKeeping(_, _, _)
\* an extractor that leaves the directive lines in the remaining content
ExtractLoopKeeping(ls, src, rem) ==
    IF ls = <<>> THEN <<src, rem>>
    ELSE LET p == parse_source_value(Head(ls))
         IN ExtractLoopKeeping(Tail(ls), src \o p, rem \o Head(ls) \o <<"\n">>)

RECURSIVE ExtractLoop(_, _, _)
\* the loop of extract_sources over the lines still to do: a directive's
\* value is pushed to sources, any other line to remaining with a newline
ExtractLoop(ls, src, rem) ==
    IF ls = <<>> THEN <<src, rem>>
    ELSE LET p == parse_source_value(Head(ls))
         IN IF p # <<>>
            THEN ExtractLoop(Tail(ls), Append(src, p[1]), rem)
            ELSE ExtractLoop(Tail(ls), src, rem \o Head(ls) \o <<"\n">>)

\* extract_sources: <<sources, remaining>>
extract_sources(txt) == ExtractLoop(lines(txt), <<>>, <<>>)

\* the lines parse_source_value is given: blanks, a key, '=', quote
\* characters before and after a value, a comment
Keys1 == {Keyword, <<"s", "o", "u", "r", "c">>, <<"x">>, <<>>}

Equals == {<<"=">>, <<>>}

Quotes ==
    {<<>>, <<Quote>>, <<Apostrophe>>, <<Quote, Quote>>, <<Quote, Apostrophe>>,
     <<Apostrophe, Quote>>}

Words == {<<>>, <<"v">>, <<"v", Quote, "w">>, <<"v", " ", "w">>, <<"v", "=", "w">>}

Comments == {<<>>, <<"#", "c">>}

ParseLines ==
    {p \o k \o p \o e \o p \o q1 \o w \o q2 \o p \o c :
        p \in Pads, k \in Keys1, e \in Equals, q1 \in Quotes, w \in Words,
        q2 \in Quotes, c \in Comments}

\* the lines of a content: blank, three directives, a comment, a section
\* header, a setting, a directive without a value
ContentLines ==
    {<<>>,
     Keyword \o <<"=", "a">>,
     <<" ">> \o Keyword \o <<" ", "=", " ", Quote, "b", Quote, " ", "#", "c">>,
     Keyword \o <<"=", Apostrophe, "~", "/", "c", Apostrophe>>,
     <<"#">> \o Keyword \o <<"=", "a">>,
     <<"[", "s", "]">>,
     <<"k", "=", "v">>,
     Keyword \o <<"=">>}

LineEndings == {<<"\n">>, <<"\r", "\n">>}

RECURSIVE Contents(_)
\* the contents of at most n lines, the last with or without its ending
Contents(n) ==
    IF n = 0 THEN {<<>>}
    ELSE {<<>>} \cup ContentLines
         \cup {l \o e \o rest : l \in ContentLines, e \in LineEndings, rest \in Contents(n - 1)}

InitText ==
    /\ \/ pc = "parse" /\ line \in ParseLines /\ content = <<>>
       \/ pc = "extract" /\ content \in Contents(MaxLines) /\ line = <<>>
    /\ parsed = <<>>
    /\ sources = <<>>
    /\ remaining = <<>>
    /\ fs = MkFs(<<"missing", "d">>, [c \in Configs |-> <<>>])
    /\ root = "a"
    /\ reads = <<>>
    /\ FlatIdle /\ LoadIdle /\ MergeIdle
    /\ PathIdle /\ ConfIdle /\ CallIdle

\* parse_source_value(line)
ParseCall ==
    /\ pc = "parse"
    /\ parsed' = parse_source_value(line)
    /\ pc' = "parsed"
    /\ UNCHANGED <<content, sources, remaining, line>>
    /\ UNCHANGED <<fs, root, reads, flatVars, loadVars, mergeVars, pathVars, confVars, calls>>

\* extract_sources(content)
ExtractCall ==
    /\ pc = "extract"
    /\ sources' = extract_sources(content)[1]
    /\ remaining' = extract_sources(content)[2]
    /\ pc' = "extracted"
    /\ UNCHANGED <<content, line, parsed>>
    /\ UNCHANGED <<fs, root, reads, flatVars, loadVars, mergeVars, pathVars, confVars, calls>>

NextText == ParseCall \/ ExtractCall

SpecText == InitText /\ [][NextText]_vars

----------------------------------------------------------------------------
(* Directive Extractor: properties *)

\* the lines that are directives, and the others
IsDirective(l) == parse_source_value(l) # <<>>

Count(s, c) == Cardinality({i \in 1..Len(s) : s[i] = c})

\* C14: extract_sources partitions the lines of its input: every line that
\* parses as a directive contributes its value to the value list, in order,
\* and is absent from the residual content; every other line, blank lines
\* too, is in the residual content verbatim, followed by a newline, in
\* order: the residual content is the concatenation of the non-directive
\* lines, its lines are exactly those lines, and every line went one way.
C14_ExtractPartitionsLines ==
    pc = "extracted" =>
        LET ls == lines(content)
            dir == SelectSeq(ls, IsDirective)
            rest == SelectSeq(ls, LAMBDA l : ~IsDirective(l))
        IN /\ sources = [i \in 1..Len(dir) |-> parse_source_value(dir[i])[1]]
           /\ remaining = Concat([i \in 1..Len(rest) |-> rest[i] \o <<"\n">>])
           /\ lines(remaining) = rest
           /\ \A i \in 1..Len(lines(remaining)) : ~IsDirective(lines(remaining)[i])
           /\ Len(sources) + Count(remaining, "\n") = Len(ls)

\* a blank line, a section header (ended "\r\n") and a last directive
\* without a line ending
C14_Witness ==
    /\ pc = "extracted"
    /\ content = <<"\n">> \o <<"[", "s", "]", "\r", "\n">>
                 \o Keyword \o <<"=", Apostrophe, "~", "/", "c", Apostrophe>>
    /\ sources = << <<"~", "/", "c">> >>
    /\ remaining = <<"\n", "[", "s", "]", "\n">>

\* s without one layer of matching surrounding quote characters: a leading
\* and a trailing '"', or a leading and a trailing "'"
OneLayerOff(s) ==
    IF Len(s) >= 2 /\ s[1] = s[Len(s)] /\ s[1] \in {Quote, Apostrophe}
    THEN SubSeq(s, 2, Len(s) - 1)
    ELSE s

\* C15: for a line (its comment stripped) whose trimmed left-hand side of
\* the first '=' is exactly "source", parse_source_value returns the trimmed
\* right-hand side with one layer of matching surrounding quote characters
\* removed and nothing else removed, and no directive when that is empty.
C15_OneQuoteLayerRemoved ==
    pc = "parsed" =>
        LET clean == trim(strip_comment(line))
            eq == Find(clean, "=")
            v == OneLayerOff(trim(Drop(clean, eq)))
        IN (eq # 0 /\ trim(SubSeq(clean, 1, eq - 1)) = Keyword)
              => parsed = IF v = <<>> THEN <<>> ELSE <<v>>

----------------------------------------------------------------------------
(* Config discovery: file_matches, discover_config_files,                   *)
(* resolve_config_path_strict, resolve_config_path (src/src/lib.rs).        *)
(* A path is the sequence of its component names.                           *)

\* the directory searched, its subdirectory, and the files
ConfRoot == <<"r">>

SubDir == <<"r", "s">>

ConfDirs == {ConfRoot, SubDir}

ConfFiles ==
    {<<"r", "a.conf">>, <<"r", "s", "b.CONF">>, <<"r", "t.conf">>, <<"r", "z.txt">>,
     <<"f.conf">>}

Nodes == ConfDirs \cup ConfFiles

\* the component names in byte order, which is the order of OsStr
NameOrder == <<"a.conf", "b.CONF", "f.conf", "r", "s", "t.conf", "z.txt">>

NameRank(n) == CHOOSE i \in 1..Len(NameOrder) : NameOrder[i] = n

\* Path::extension of the file names that occur
Extension(p) ==
    LET n == p[Len(p)]
    IN IF n \in {"a.conf", "t.conf", "f.conf"} THEN "conf"
       ELSE IF n = "b.CONF" THEN "CONF"
       ELSE IF n = "z.txt" THEN "txt"
       ELSE ""

\* str::eq_ignore_ascii_case with a candidate extension
eq_ignore_ascii_case(x, y) ==
    LET lower(e) == IF e = "CONF" THEN "conf" ELSE e IN lower(x) = lower(y)

\* ConfigMetaSpec::for_type("bar", &["conf"])
MetaSpec == [config_type |-> "bar", extensions |-> {"conf"}]

\* a file is "bar" or "theme" (a readable file whose header names that
\* type), "plain" (readable, no metadata header), "noread" or "missing"; a
\* directory is "dir", "nolist" (search-only: fs::read_dir fails, what is in
\* it is reached by its path), "noread" (closed: it cannot be listed and
\* nothing in it is reached) or "missing"
FileKinds == {"bar", "theme", "plain", "noread", "missing"}

DirKinds == {"dir", "nolist", "noread", "missing"}

\* the directory kinds a path can be followed through
Searchable == {"dir", "nolist"}

\* the directories above p
Ancestors(p) == {SubSeq(p, 1, k) : k \in 1..(Len(p) - 1)}

\* Path::exists
ConfExists(t, p) ==
    /\ t[p] # "missing"
    /\ \A d \in Ancestors(p) : t[d] \in Searchable

\* fs::read_to_string(path).is_ok()
ConfReadable(t, p) ==
    ConfExists(t, p) /\ t[p] \in {"bar", "theme", "plain"}

\* matches_spec on the content: the header's type is the type asked for
matches_spec(t, p, spec) == t[p] = spec.config_type

\* file_matches: the extension is one of the spec's, whatever its case, the
\* file can be read, and its metadata match
file_matches(t, p, spec) ==
    /\ \E candidate \in spec.extensions : eq_ignore_ascii_case(Extension(p), candidate)
    /\ ConfReadable(t, p)
    /\ matches_spec(t, p, spec)

\* PathBuf::cmp: component by component, a prefix first
PathLess(p, q) ==
    \E k \in 1..(Len(q)) :
        /\ \A j \in 1..(k - 1) : j <= Len(p) /\ p[j] = q[j]
        /\ \/ Len(p) = k - 1
           \/ Len(p) >= k /\ NameRank(p[k]) < NameRank(q[k])

RECURSIVE sort(_)
\* matches.sort()
sort(m) ==
    IF m = <<>> THEN <<>>
    ELSE LET i == CHOOSE k \in 1..Len(m) :
                      \A j \in 1..Len(m) : m[j] = m[k] \/ PathLess(m[k], m[j])
         IN <<m[i]>> \o sort(SubSeq(m, 1, i - 1) \o SubSeq(m, i + 1, Len(m)))

\* fs::read_dir(dir).is_ok()
Listable(t, dir) == ConfExists(t, dir) /\ t[dir] = "dir"

\* the entries fs::read_dir(dir) yields, as a set: the order is the
\* filesystem's
Entries(t, dir) == {p \in Nodes : Len(p) = Len(dir) + 1 /\ SubSeq(p, 1, Len(dir)) = dir
                                  /\ ConfExists(t, p)}

\* the sequences that list every element of S once
Orders(S) == {o \in [1..Cardinality(S) -> S] : \A i, j \in 1..Cardinality(S) :
                                                  i # j => o[i] # o[j]}

NoResolved == [strict |-> <<>>, path |-> <<>>]

\* Path::is_dir
ConfIsDir(t, p) == p \in ConfDirs /\ ConfExists(t, p)

InitConf ==
    /\ \E rk \in DirKinds, sk \in DirKinds, ak \in FileKinds, bk \in FileKinds,
          tk \in FileKinds, fk \in FileKinds, zk \in {"bar", "missing"} :
          tree = [p \in Nodes |->
                     IF p = ConfRoot THEN rk
                     ELSE IF p = SubDir THEN sk
                     ELSE IF p = <<"r", "a.conf">> THEN ak
                     ELSE IF p = <<"r", "s", "b.CONF">> THEN bk
                     ELSE IF p = <<"r", "t.conf">> THEN tk
                     ELSE IF p = <<"f.conf">> THEN fk
                     ELSE zk]
    /\ fallback \in {<<"r", "t.conf">>, <<"f.conf">>}
    /\ pc = "resolve_config"
    /\ dstack = <<>>
    /\ matches = <<>>
    /\ resolved = NoResolved
    /\ fs = MkFs(<<"missing", "d">>, [c \in Configs |-> <<>>])
    /\ root = "a"
    /\ reads = <<>>
    /\ FlatIdle /\ LoadIdle /\ MergeIdle
    /\ PathIdle /\ TextIdle /\ CallIdle

\* resolve_config_path_strict: the fallback exists and matches, it is
\* returned; resolve_config_path returns it too
ResolveFallbackWins ==
    /\ pc = "resolve_config"
    /\ ConfExists(tree, fallback) /\ file_matches(tree, fallback, MetaSpec)
    /\ resolved' = [strict |-> <<fallback>>, path |-> fallback]
    /\ pc' = "resolved"
    /\ UNCHANGED <<tree, fallback, dstack, matches>>
    /\ UNCHANGED <<fs, root, reads, flatVars, loadVars, mergeVars, pathVars, textVars, calls>>

\* otherwise discover_config_files(root, spec) is called: its stack holds
\* the root
DiscoverStart ==
    /\ pc = "resolve_config"
    /\ ~(ConfExists(tree, fallback) /\ file_matches(tree, fallback, MetaSpec))
    /\ dstack' = <<ConfRoot>>
    /\ matches' = <<>>
    /\ pc' = "discover"
    /\ UNCHANGED <<tree, fallback, resolved>>
    /\ UNCHANGED <<fs, root, reads, flatVars, loadVars, mergeVars, pathVars, textVars, calls>>

\* fs::read_dir of the popped directory fails: continue
DiscoverUnreadable ==
    /\ pc = "discover" /\ dstack # <<>>
    /\ LET dir == dstack[Len(dstack)]
       IN ~Listable(tree, dir)
    /\ dstack' = SubSeq(dstack, 1, Len(dstack) - 1)
    /\ UNCHANGED <<tree, fallback, matches, resolved, pc>>
    /\ UNCHANGED <<fs, root, reads, flatVars, loadVars, mergeVars, pathVars, textVars, calls>>

\* the popped directory is listed, in the order the filesystem gives: its
\* directories are pushed, its files that match are kept
DiscoverDir ==
    /\ pc = "discover" /\ dstack # <<>>
    /\ LET dir == dstack[Len(dstack)]
       IN /\ Listable(tree, dir)
          /\ \E o \in Orders(Entries(tree, dir)) :
                /\ dstack' = SubSeq(dstack, 1, Len(dstack) - 1)
                             \o SelectSeq(o, LAMBDA p : ConfIsDir(tree, p))
                /\ matches' = matches
                              \o SelectSeq(o, LAMBDA p : /\ ~ConfIsDir(tree, p)
                                                          /\ file_matches(tree, p, MetaSpec))
    /\ UNCHANGED <<tree, fallback, resolved, pc>>
    /\ UNCHANGED <<fs, root, reads, flatVars, loadVars, mergeVars, pathVars, textVars, calls>>

\* the stack is empty: the matches are sorted and returned; the strict
\* resolver returns the first of them, if any, and resolve_config_path the
\* fallback when there is none
DiscoverReturn ==
    /\ pc = "discover" /\ dstack = <<>>
    /\ matches' = sort(matches)
    /\ resolved' = IF matches' = <<>>
                   THEN [strict |-> <<>>, path |-> fallback]
                   ELSE [strict |-> <<matches'[1]>>, path |-> matches'[1]]
    /\ pc' = "resolved"
    /\ UNCHANGED <<tree, fallback, dstack>>
    /\ UNCHANGED <<fs, root, reads, flatVars, loadVars, mergeVars, pathVars, textVars, calls>>

NextConf ==
    \/ ResolveFallbackWins \/ DiscoverStart \/ DiscoverUnreadable
    \/ DiscoverDir \/ DiscoverReturn

SpecConf == InitConf /\ [][NextConf]_vars

----------------------------------------------------------------------------
(* Config discovery: properties *)

\* the files below the root that match
MatchingBelow(t) ==
    {p \in ConfFiles : Len(p) > Len(ConfRoot) /\ SubSeq(p, 1, Len(ConfRoot)) = ConfRoot
                       /\ file_matches(t, p, MetaSpec)}

\* C16: resolve_config_path returns the fallback whenever the fallback
\* exists and matches the metadata spec, whatever else matches below the
\* root; otherwise the first, in sorted path order, of the matching files
\* below the root; otherwise the fallback, even if it is missing.
\* resolve_config_path_strict returns None exactly when neither the
\* fallback nor any file below the root matches.  (It fails when the only
\* matching files are in a directory that fs::read_dir cannot list.)
C16_ResolutionOrder ==
    pc = "resolved" =>
        LET fb == ConfExists(tree, fallback) /\ file_matches(tree, fallback, MetaSpec)
            below == MatchingBelow(tree)
        IN /\ fb => resolved = [strict |-> <<fallback>>, path |-> fallback]
           /\ (~fb /\ below # {}) =>
                 /\ resolved.path \in below
                 /\ \A q \in below : q = resolved.path \/ PathLess(resolved.path, q)
                 /\ resolved.strict = <<resolved.path>>
           /\ (~fb /\ below = {}) => resolved = [strict |-> <<>>, path |-> fallback]
           /\ (resolved.strict = <<>>) = (~fb /\ below = {})

----------------------------------------------------------------------------
(* Calls that run at the same time.  Each call is a record of its own       *)
(* locals; a step of the system is a step of one call.  The filesystem      *)
(* does not change.                                                         *)

\* a call before its first step: collect_source_graph ("walk") creates out,
\* stack and seen, load_toml_with_includes ("load") its Recursion Stack
StartCall(kind, r) ==
    [kind |-> kind, root |-> r, pc |-> "start",
     out |-> <<>>, stack |-> <<>>, seen |-> {},
     frames |-> <<>>, rec_stack |-> {}, err |-> NoErr, result |-> NoResult]

\* the canonical paths any walk among the calls has seen
SeenByAll == UNION {calls[i].seen : i \in 1..Len(calls)}

\* a walk whose visitation set is one set shared by all calls
WalkStepSharedSeen(f, c) ==
    IF c.pc = "start" THEN [c EXCEPT !.pc = "run", !.stack = <<c.root>>]
    ELSE IF c.stack = <<>> THEN [c EXCEPT !.pc = "done"]
    ELSE LET file == c.stack[Len(c.stack)]
             rest == SubSeq(c.stack, 1, Len(c.stack) - 1)
             canonical == Canonicalize(f, file)
         IN IF canonical \in SeenByAll THEN [c EXCEPT !.stack = rest]
            ELSE [c EXCEPT !.seen = @ \cup {canonical},
                           !.out = Append(@, file),
                           !.stack = rest \o (IF Readable(f, file)
                                              THEN PushedTargets(f, file) ELSE <<>>)]

\* one step of collect_source_graph on its own locals: the creation of the
\* locals, one turn of the while loop, or the return
WalkStep(f, c) ==
    IF c.pc = "start" THEN [c EXCEPT !.pc = "run", !.stack = <<c.root>>]
    ELSE IF c.stack = <<>> THEN [c EXCEPT !.pc = "done"]
    ELSE LET file == c.stack[Len(c.stack)]
             rest == SubSeq(c.stack, 1, Len(c.stack) - 1)
             canonical == Canonicalize(f, file)
         IN IF canonical \in c.seen THEN [c EXCEPT !.stack = rest]
            ELSE [c EXCEPT !.seen = @ \cup {canonical},
                           !.out = Append(@, file),
                           !.stack = rest \o (IF Readable(f, file)
                                              THEN PushedTargets(f, file) ELSE <<>>)]

\* one step of load_toml_with_includes on its own locals
LoadStep(f, c) ==
    LET n == Len(c.frames)
        cur == c.frames[n]
        callers == SubSeq(c.frames, 1, n - 1)
        set(fr) == [c.frames EXCEPT ![n] = fr]
    IN IF c.pc = "start"
       THEN [c EXCEPT !.pc = "run",
                      !.rec_stack = {Canonicalize(f, c.root)},
                      !.frames = <<Frame(c.root, Canonicalize(f, c.root), {})>>]
       ELSE IF c.err # NoErr
       THEN [c EXCEPT !.rec_stack = @ \ {cur.canonical},
                      !.frames = callers,
                      !.result = IF n = 1 THEN [tag |-> "err", doc |-> IntV(0), err |-> c.err]
                                 ELSE @,
                      !.pc = IF n = 1 THEN "done" ELSE @]
       ELSE IF cur.st = "entered"
       THEN IF ~Readable(f, cur.path)
            THEN [c EXCEPT !.err = [kind |-> "io", path |-> cur.path]]
            ELSE IF f.kind[f.canon[cur.path]] = "badtoml"
            THEN [c EXCEPT !.err = [kind |-> "parse", path |-> cur.path]]
            ELSE LET doc == ParsedDoc(f, cur.path)
                 IN [c EXCEPT !.frames =
                        set([cur EXCEPT !.st = "loop", !.root_value = doc,
                                !.patterns = extract_include_patterns(doc, IncludeKey)])]
       ELSE IF cur.targets # <<>>
       THEN LET t == Head(cur.targets)
                popped == set([cur EXCEPT !.targets = Tail(@)])
            IN IF ~(Exists(f, t) /\ IsFile(f, t)) THEN [c EXCEPT !.frames = popped]
               ELSE IF Canonicalize(f, t) \in c.rec_stack
               THEN [c EXCEPT !.frames = popped,
                              !.err = [kind |-> "cyclic", path |-> Canonicalize(f, t)]]
               ELSE [c EXCEPT !.rec_stack = @ \cup {Canonicalize(f, t)},
                              !.frames = Append(popped,
                                                Frame(t, Canonicalize(f, t), c.rec_stack))]
       ELSE IF cur.patterns # <<>>
       THEN [c EXCEPT !.frames =
                set([cur EXCEPT !.targets = resolve_source_targets(f, Head(cur.patterns)),
                                !.patterns = Tail(@)])]
       ELSE [c EXCEPT !.rec_stack = @ \ {cur.canonical},
                      !.frames = IF n = 1 THEN <<>>
                                 ELSE [callers EXCEPT ![n - 1].root_value =
                                          merge_toml_values(@, cur.root_value)],
                      !.result = IF n = 1 THEN [tag |-> "ok", doc |-> cur.root_value,
                                                err |-> NoErr]
                                 ELSE @,
                      !.pc = IF n = 1 THEN "done" ELSE @]

CallStep(f, c) == IF c.kind = "walk" THEN WalkStep(f, c) ELSE LoadStep(f, c)

\* the filesystems the calls run on
ConcExprs ==
    {ex \in [Configs -> SeqsUpTo(Paths \cup {GlobExpr}, 2)] :
        /\ ex["a"] \in {<<>>, <<"b">>, <<"b", "c">>, <<GlobExpr>>, <<"d">>, <<"a">>}
        /\ ex["b"] \in {<<>>, <<"c">>, <<"a">>, <<"d">>}
        /\ ex["c"] \in {<<>>, <<"a">>, <<"b">>, <<"d">>}}

\* two calls: two walks, a walk and a load, or two loads
CallKinds == {<<"walk", "walk">>, <<"walk", "load">>, <<"load", "load">>}

InitConc ==
    /\ \E dopt \in {<<"file", "d">>, <<"missing", "d">>, <<"badtoml", "d">>, <<"file", "a">>},
          ex \in ConcExprs : fs = MkFs(dopt, ex)
    /\ \E k \in CallKinds, r \in {"a", "b"} :
          calls = <<StartCall(k[1], "a"), StartCall(k[2], r)>>
    /\ pc = "calls"
    /\ root = "a"
    /\ reads = <<>>
    /\ FlatIdle /\ LoadIdle /\ MergeIdle
    /\ PathIdle /\ TextIdle /\ ConfIdle

\* a step of one of the walks
StepWalkCall ==
    /\ pc = "calls"
    /\ \E i \in 1..Len(calls) :
          /\ calls[i].kind = "walk" /\ calls[i].pc # "done"
          /\ calls' = [calls EXCEPT ![i] = WalkStep(fs, calls[i])]
    /\ UNCHANGED <<fs, root, pc, reads, flatVars, loadVars, mergeVars, pathVars, textVars,
                   confVars>>

\* a step of one of the loads
StepLoadCall ==
    /\ pc = "calls"
    /\ \E i \in 1..Len(calls) :
          /\ calls[i].kind = "load" /\ calls[i].pc # "done"
          /\ calls' = [calls EXCEPT ![i] = LoadStep(fs, calls[i])]
    /\ UNCHANGED <<fs, root, pc, reads, flatVars, loadVars, mergeVars, pathVars, textVars,
                   confVars>>

NextConc == StepWalkCall \/ StepLoadCall

SpecConc == InitConc /\ [][NextConc]_vars

----------------------------------------------------------------------------
(* Calls that run at the same time: properties *)

RECURSIVE RunAlone(_, _)
\* the call c run to its end with no other call beside it
RunAlone(f, c) == IF c.pc = "done" THEN c ELSE RunAlone(f, CallStep(f, c))

\* C17: calls of collect_source_graph and load_toml_with_includes that run at
\* the same time over an unchanging filesystem do not interfere: under any
\* interleaving of their steps a step of one call changes no other call, the
\* Visitation Set of a walk holds the canonical paths of its own output
\* only and the Recursion Stack of a load those of its own active calls,
\* and every call ends with the locals and result it ends with when run
\* alone: a walk with the files reachable from its root, each once, a load
\* that returns a document with the merge of its own include graph.
C17_CallsDoNotInterfere ==
    /\ [](\A i \in 1..Len(calls) :
            LET c == calls[i]
            IN /\ c.seen = Range(CanonSeq(fs, c.out))
               /\ c.rec_stack = {c.frames[k].canonical : k \in 1..Len(c.frames)}
               /\ c.pc = "done" =>
                     /\ c = RunAlone(fs, StartCall(c.kind, c.root))
                     /\ c.kind = "walk" =>
                           /\ NoDup(CanonSeq(fs, c.out))
                           /\ c.seen = CanonSet(fs, ReachFrom(fs, {c.root}))
                     /\ (c.kind = "load" /\ c.result.tag = "ok") =>
                           c.result.doc = LoadedDoc(fs, c.root, Cardinality(Paths)))
    /\ [][\E i \in 1..Len(calls) : \A j \in 1..Len(calls) : j # i => calls'[j] = calls[j]]_vars

\* two walks of the cycle a -> b -> a, from a and from b, that both ran to
\* the end after both had started
C17_Witness ==
    /\ calls[1].kind = "walk" /\ calls[2].kind = "walk"
    /\ fs.exprs["a"] = <<"b">> /\ fs.exprs["b"] = <<"a">>
    /\ calls[1].pc = "done" /\ calls[2].pc = "done"
    /\ calls[1].out = <<"a", "b">> /\ calls[2].out = <<"b", "a">>

====
